---- MODULE Spec2Model ----
(***************************************************************************)
(* Financial computation engine (lib/calculations), the localStorage       *)
(* adapters (lib/storage) and the useFinancialData hook of the personal    *)
(* finance tracker.                                                        *)
(*                                                                         *)
(* JavaScript numbers are modelled as exact rationals <<numerator,         *)
(* denominator>> in lowest terms with a positive denominator, so the       *)
(* formulas are computed step by step as the code computes them, without   *)
(* the rounding of IEEE-754 doubles.  Dates are integer instants.          *)
(***************************************************************************)
EXTENDS Integers, Sequences, FiniteSets, TLC

VARIABLES
    loan,          \* arguments of the interest calculator under evaluation
    calc,          \* last interest calculation applied: [op, value, double]
    ledger,        \* the transaction collection handed to the reducers
    account,       \* the account handed to the reconciler
    now,           \* the instant new Date() returns
    totals,        \* what the reducers return for ledger, account and now
    transactions,  \* useFinancialData: the transactions state
    accounts,      \* useFinancialData: the accounts state
    view,          \* the state of the last render, which the callbacks close over
    isLoading,     \* useFinancialData: the isLoading state
    error,         \* useFinancialData: the error state
    stTransactions, \* localStorage: financial_transactions
    stAccounts,    \* localStorage: financial_accounts
    portfolio,     \* the accounts, investments and credit card the calculators are given
    figures,       \* what the portfolio calculators return for portfolio
    localStorage,  \* the parsed text under each key of STORAGE_KEYS
    backup         \* the last backupStorage call: [op, data, result]

interestVars == <<loan, calc>>
ledgerVars == <<ledger, account, now, totals>>
hookVars == <<transactions, accounts, view, isLoading, error, stTransactions, stAccounts>>
portfolioVars == <<portfolio, figures>>
backupVars == <<localStorage, backup>>
vars == <<loan, calc, ledger, account, now, totals,
          transactions, accounts, view, isLoading, error, stTransactions, stAccounts,
          portfolio, figures, localStorage, backup>>

(***************************************************************************)
(* Bounds of the model.                                                    *)
(***************************************************************************)
MaxPeriods == 3
MaxLedger == 2
MaxTxns == 2
MaxHoldings == 2
MaxAccounts == 3

\* Money is counted in cents: an amount of 250 is the number 2.50.
\* principal amounts and rates (percent) the calculator is evaluated on
Principals == {10, 100, 250}
Rates == {0, 100, 300, 1200}

\* an optional numeric field that is not set (undefined); set values are >= 0
None == -1

(***************************************************************************)
(* Number arithmetic.                                                      *)
(***************************************************************************)
Abs(x) == IF x < 0 THEN -x ELSE x

RECURSIVE GCD(_, _)
GCD(a, b) == IF b = 0 THEN a ELSE GCD(b, a % b)

\* the rational n/d in lowest terms, d # 0
Rat(n, d) ==
    LET s == IF d < 0 THEN -1 ELSE 1
        g == GCD(Abs(n), Abs(d))
    IN  <<(s * n) \div g, (s * d) \div g>>

Num(n) == <<n, 1>>

\* the result of a division by zero (Infinity or NaN)
NotFinite == <<0, 0>>

RAdd(x, y) ==
    IF x = NotFinite \/ y = NotFinite THEN NotFinite
    ELSE LET g == GCD(x[2], y[2])
         IN  Rat(x[1] * (y[2] \div g) + y[1] * (x[2] \div g), (x[2] \div g) * y[2])

RNeg(x) == <<-x[1], x[2]>>

RSub(x, y) == RAdd(x, RNeg(y))

RMul(x, y) ==
    IF x = NotFinite \/ y = NotFinite THEN NotFinite
    ELSE LET g1 == GCD(Abs(x[1]), y[2])
             g2 == GCD(Abs(y[1]), x[2])
         IN  Rat((x[1] \div g1) * (y[1] \div g2), (x[2] \div g2) * (y[2] \div g1))

RDiv(x, y) == IF y[1] = 0 THEN NotFinite ELSE RMul(x, Rat(y[2], y[1]))

RLess(x, y) == RSub(x, y)[1] < 0

RLeq(x, y) == RSub(x, y)[1] <= 0

\* Math.max
RMax(x, y) == IF RLess(x, y) THEN y ELSE x

\* Math.pow with a non-negative integer exponent
RECURSIVE RPow(_, _)
RPow(x, n) == IF n = 0 THEN Num(1) ELSE RMul(x, RPow(x, n - 1))

(***************************************************************************)
(* IEEE-754 binary64, for the expressions whose operands are a double and  *)
(* a small integer.  A positive double is [m, e] with the value m * 2^e:   *)
(* m is its 53-bit significand, written as a sequence of digits in base    *)
(* 2^LimbBits, most significant first; zero has the empty significand.     *)
(* Rounding is to nearest, ties to even.                                   *)
(***************************************************************************)
SignificandBits == 53
LimbBits == 12
LimbBase == 2 ^ LimbBits

ZeroLimbs(n) == [i \in 1..n |-> 0]

\* the digits of a natural number
RECURSIVE LimbsOf(_)
LimbsOf(n) ==
    IF n = 0 THEN <<>> ELSE Append(LimbsOf(n \div LimbBase), n % LimbBase)

RECURSIVE StripZeros(_)
StripZeros(limbs) ==
    IF Len(limbs) = 0 \/ limbs[1] # 0 THEN limbs ELSE StripZeros(Tail(limbs))

\* limbs * k for a small natural number k: the low Len(limbs) digits and the carry
RECURSIVE MulSmallCarry(_, _)
MulSmallCarry(limbs, k) ==
    IF Len(limbs) = 0 THEN [low |-> <<>>, carry |-> 0]
    ELSE LET rest == MulSmallCarry(Tail(limbs), k)
             v == limbs[1] * k + rest.carry
         IN  [low |-> <<v % LimbBase>> \o rest.low, carry |-> v \div LimbBase]

MulSmall(limbs, k) ==
    LET p == MulSmallCarry(limbs, k) IN StripZeros(LimbsOf(p.carry) \o p.low)

\* quotient and remainder of limbs by a small positive number d
RECURSIVE DivSmall(_, _)
DivSmall(limbs, d) ==
    IF Len(limbs) = 0 THEN [q |-> <<>>, r |-> 0]
    ELSE LET p == DivSmall(SubSeq(limbs, 1, Len(limbs) - 1), d)
             v == LimbBase * p.r + limbs[Len(limbs)]
         IN  [q |-> Append(p.q, v \div d), r |-> v % d]

RECURSIVE Increment(_)
Increment(limbs) ==
    IF Len(limbs) = 0 THEN <<1>>
    ELSE IF limbs[Len(limbs)] < LimbBase - 1
    THEN Append(SubSeq(limbs, 1, Len(limbs) - 1), limbs[Len(limbs)] + 1)
    ELSE Append(Increment(SubSeq(limbs, 1, Len(limbs) - 1)), 0)

\* the number of bits of limbs, which has no leading zero digit
BitLength(limbs) ==
    IF Len(limbs) = 0 THEN 0
    ELSE LimbBits * (Len(limbs) - 1)
         + (CHOOSE b \in 1..LimbBits : 2 ^ (b - 1) <= limbs[1] /\ limbs[1] < 2 ^ b)

F64Zero == [m |-> <<>>, e |-> 0]

\* the double nearest to limbs * 2^e (+ a non-zero fraction of 2^e when
\* sticky), limbs without a leading zero digit
F64Round(limbs, e, sticky) ==
    LET s == BitLength(limbs) - SignificandBits
    IN  IF Len(limbs) = 0 THEN F64Zero
        ELSE IF s <= 0
        THEN [m |-> MulSmall(limbs \o ZeroLimbs((-s) \div LimbBits), 2 ^ ((-s) % LimbBits)),
              e |-> e + s]
        ELSE LET dropped == (s - 1) \div LimbBits
                 shift == s - LimbBits * dropped
                 kept == SubSeq(limbs, 1, Len(limbs) - dropped)
                 below == sticky \/ \E i \in (Len(limbs) - dropped + 1)..Len(limbs) :
                                        limbs[i] # 0
                 qr == DivSmall(kept, 2 ^ shift)
                 q == StripZeros(qr.q)
                 half == 2 ^ (shift - 1)
                 up == \/ qr.r > half
                       \/ qr.r = half /\ (below \/ q[Len(q)] % 2 = 1)
                 m == IF up THEN Increment(q) ELSE q
             IN  IF BitLength(m) > SignificandBits
                 THEN [m |-> StripZeros(DivSmall(m, 2).q), e |-> e + s + 1]
                 ELSE [m |-> m, e |-> e + s]

\* the double of a natural number
F64OfInt(n) == F64Round(LimbsOf(n), 0, FALSE)

\* x * k for a double x and a small natural number k
F64MulInt(x, k) == F64Round(MulSmall(x.m, k), x.e, FALSE)

\* x / d for a double x and a small positive integer d
F64DivInt(x, d) ==
    LET qr == DivSmall(x.m \o ZeroLimbs(2), d)
    IN  F64Round(StripZeros(qr.q), x.e - 2 * LimbBits, qr.r # 0)

\* the number written with two decimals, given in cents
F64OfCents(c) == F64DivInt(F64OfInt(c), 100)

\* the digits of a + b + carry
RECURSIVE AddLimbs(_, _, _)
AddLimbs(a, b, carry) ==
    IF Len(a) = 0 /\ Len(b) = 0 THEN LimbsOf(carry)
    ELSE LET da == IF Len(a) = 0 THEN 0 ELSE a[Len(a)]
             db == IF Len(b) = 0 THEN 0 ELSE b[Len(b)]
             v == da + db + carry
         IN  Append(AddLimbs(SubSeq(a, 1, Len(a) - 1), SubSeq(b, 1, Len(b) - 1),
                             v \div LimbBase),
                    v % LimbBase)

\* limbs * 2^k
ShiftLeft(limbs, k) == MulSmall(limbs, 2 ^ (k % LimbBits)) \o ZeroLimbs(k \div LimbBits)

\* x + y for doubles x, y >= 0
F64Add(x, y) ==
    IF Len(x.m) = 0 THEN y
    ELSE IF Len(y.m) = 0 THEN x
    ELSE LET e == IF x.e < y.e THEN x.e ELSE y.e
         IN  F64Round(StripZeros(AddLimbs(ShiftLeft(x.m, x.e - e),
                                          ShiftLeft(y.m, y.e - e), 0)),
                      e, FALSE)

(***************************************************************************)
(* interestCalculations                                                    *)
(***************************************************************************)
\* the Price formula with the growth factor left out of the numerator
installmentPaymentNoGrowth(principal, rate, periods) ==
    IF rate = Num(0) THEN RDiv(principal, Num(periods))
    ELSE LET monthlyRate == RDiv(RDiv(rate, Num(100)), Num(12))
             growth == RPow(RAdd(Num(1), monthlyRate), periods)
         IN  RDiv(RMul(principal, monthlyRate), RSub(growth, Num(1)))

\* the Price formula without the zero-rate branch
installmentPaymentNoZeroBranch(principal, rate, periods) ==
    LET monthlyRate == RDiv(RDiv(rate, Num(100)), Num(12))
        growth == RPow(RAdd(Num(1), monthlyRate), periods)
    IN  RDiv(RMul(principal, RMul(monthlyRate, growth)), RSub(growth, Num(1)))

installmentPayment(principal, rate, periods) ==
    IF rate = Num(0) THEN RDiv(principal, Num(periods))
    ELSE LET monthlyRate == RDiv(RDiv(rate, Num(100)), Num(12))
             growth == RPow(RAdd(Num(1), monthlyRate), periods)
         IN  RDiv(RMul(principal, RMul(monthlyRate, growth)), RSub(growth, Num(1)))

\* the balance after i more periods of the amortization walk
RECURSIVE WalkBalance(_, _, _, _)
WalkBalance(balance, monthlyRate, installment, i) ==
    IF i = 0 THEN balance
    ELSE LET interestPayment == RMul(balance, monthlyRate)
             principalPayment == RSub(installment, interestPayment)
         IN  WalkBalance(RSub(balance, principalPayment), monthlyRate, installment, i - 1)

\* remainingBalance returning the walked balance without Math.max(0, .)
remainingBalanceNoClamp(principal, rate, totalPeriods, paidPeriods) ==
    IF rate = Num(0)
    THEN RDiv(RMul(principal, Num(totalPeriods - paidPeriods)), Num(totalPeriods))
    ELSE LET monthlyRate == RDiv(RDiv(rate, Num(100)), Num(12))
             installment == installmentPayment(principal, RMul(rate, Num(12)), totalPeriods)
         IN  WalkBalance(principal, monthlyRate, installment, paidPeriods)

\* the walk with the principal portion added to the balance instead of subtracted
RECURSIVE WalkBalanceAdding(_, _, _, _)
WalkBalanceAdding(balance, monthlyRate, installment, i) ==
    IF i = 0 THEN balance
    ELSE LET interestPayment == RMul(balance, monthlyRate)
             principalPayment == RSub(installment, interestPayment)
         IN  WalkBalanceAdding(RAdd(balance, principalPayment), monthlyRate, installment, i - 1)

remainingBalanceAdding(principal, rate, totalPeriods, paidPeriods) ==
    IF rate = Num(0)
    THEN RDiv(RMul(principal, Num(totalPeriods - paidPeriods)), Num(totalPeriods))
    ELSE LET monthlyRate == RDiv(RDiv(rate, Num(100)), Num(12))
             installment == installmentPayment(principal, RMul(rate, Num(12)), totalPeriods)
         IN  RMax(Num(0), WalkBalanceAdding(principal, monthlyRate, installment, paidPeriods))

remainingBalance(principal, rate, totalPeriods, paidPeriods) ==
    IF rate = Num(0)
    THEN RDiv(RMul(principal, Num(totalPeriods - paidPeriods)), Num(totalPeriods))
    ELSE LET monthlyRate == RDiv(RDiv(rate, Num(100)), Num(12))
             installment == installmentPayment(principal, RMul(rate, Num(12)), totalPeriods)
         IN  RMax(Num(0), WalkBalance(principal, monthlyRate, installment, paidPeriods))

\* a result the binary64 evaluation does not cover
Unevaluated == [m |-> <<>>, e |-> 1]

\* remainingBalance in binary64 for a principal given in cents, where the
\* result does not depend on Math.pow: the zero-rate branch, and the walk of
\* zero periods, which returns Math.max(0, principal)
remainingBalance64(cents, rate, totalPeriods, paidPeriods) ==
    IF rate = 0
    THEN F64DivInt(F64MulInt(F64OfCents(cents), totalPeriods - paidPeriods), totalPeriods)
    ELSE IF paidPeriods = 0 THEN F64OfCents(cents)
    ELSE Unevaluated

(***************************************************************************)
(* transactionCalculations                                                 *)
(***************************************************************************)
\* JavaScript truthiness of an optional number: undefined and 0 are falsy
Truthy(v) == v # None /\ v # 0

\* reduce((sum, t) => sum + t.amount, 0)
RECURSIVE SumAmount(_)
SumAmount(txns) ==
    IF Len(txns) = 0 THEN 0
    ELSE SumAmount(SubSeq(txns, 1, Len(txns) - 1)) + txns[Len(txns)].amount

\* what one debt adds to the running sum of getTotalDebts
DebtContribution(t) ==
    IF Truthy(t.installments) /\ Truthy(t.currentInstallment) /\ Truthy(t.interestRate)
    THEN remainingBalance(Num(t.amount), Num(t.interestRate), t.installments,
                          t.currentInstallment - 1)
    ELSE Num(t.amount)

RECURSIVE SumDebts(_)
SumDebts(txns) ==
    IF Len(txns) = 0 THEN Num(0)
    ELSE RAdd(SumDebts(SubSeq(txns, 1, Len(txns) - 1)), DebtContribution(txns[Len(txns)]))

getTotalDebts(txns) ==
    SumDebts(SelectSeq(txns,
                       LAMBDA t : t.type = "divida" /\ t.status # "cancelada"))

\* the total of a type without the status filter
getTotalByTypeAnyStatus(txns, type) ==
    SumAmount(SelectSeq(txns, LAMBDA t : t.type = type))

getTotalByType(txns, type) ==
    SumAmount(SelectSeq(txns,
                        LAMBDA t : t.type = type /\ t.status = "concluida"))

getTotalIncome(txns) ==
    SumAmount(SelectSeq(txns,
                        LAMBDA t : t.type = "receita" /\ t.status = "concluida"))

getTotalExpenses(txns) ==
    SumAmount(SelectSeq(txns,
                        LAMBDA t : t.type \in {"despesa", "cartao_credito"}
                                   /\ t.status = "concluida"))

\* income minus plain expenses, card charges left out
getNetBalanceNoCard(txns) ==
    getTotalByType(txns, "receita") - getTotalByType(txns, "despesa")

getNetBalance(txns) ==
    LET income == getTotalIncome(txns)
        expenses == getTotalExpenses(txns)
    IN  income - expenses

\* Instants are counted in hours (the code counts milliseconds).
HoursPerDay == 24
DefaultDays == 30

\* scheduledDate when set, otherwise date
EffectiveDate(t) == IF t.scheduledDate # None THEN t.scheduledDate ELSE t.date

\* the upcoming filter keeping every transaction that is not completed
getFutureTransactionsNotCompleted(txns, days, today) ==
    LET futureDate == today + days * HoursPerDay
    IN  SelectSeq(txns,
                  LAMBDA t : /\ t.status # "concluida"
                             /\ EffectiveDate(t) >= today
                             /\ EffectiveDate(t) <= futureDate)

getFutureTransactions(txns, days, today) ==
    LET futureDate == today + days * HoursPerDay
    IN  SelectSeq(txns,
                  LAMBDA t : /\ t.status = "pendente"
                             /\ EffectiveDate(t) >= today
                             /\ EffectiveDate(t) <= futureDate)

\* the overdue filter counting a transaction due at the instant of the call
getOverdueTransactionsInclusive(txns, today) ==
    SelectSeq(txns,
              LAMBDA t : t.status = "pendente" /\ EffectiveDate(t) <= today)

getOverdueTransactions(txns, today) ==
    SelectSeq(txns,
              LAMBDA t : t.status = "pendente" /\ EffectiveDate(t) < today)

(***************************************************************************)
(* accountCalculations                                                     *)
(***************************************************************************)
\* the sign rule with every other type, transfers included, subtracted
RECURSIVE ApplySignedElse(_, _)
ApplySignedElse(balance, txns) ==
    IF Len(txns) = 0 THEN balance
    ELSE LET t == txns[Len(txns)]
             before == ApplySignedElse(balance, SubSeq(txns, 1, Len(txns) - 1))
         IN  IF t.type \in {"receita", "credito"} THEN before + t.amount
             ELSE before - t.amount

\* the sign rule of the reconciler applied to the transactions in order
RECURSIVE ApplySigned(_, _)
ApplySigned(balance, txns) ==
    IF Len(txns) = 0 THEN balance
    ELSE LET t == txns[Len(txns)]
             before == ApplySigned(balance, SubSeq(txns, 1, Len(txns) - 1))
         IN  IF t.type \in {"receita", "credito"} THEN before + t.amount
             ELSE IF t.type \in {"despesa", "divida", "cartao_credito", "investimento"}
             THEN before - t.amount
             ELSE before

\* the reconciler without the status filter
updateAccountBalanceAnyStatus(acc, txns) ==
    ApplySigned(acc.initialBalance,
                SelectSeq(txns, LAMBDA t : t.accountId = acc.id))

updateAccountBalance(acc, txns) ==
    LET accountTransactions ==
            SelectSeq(txns,
                      LAMBDA t : t.accountId = acc.id /\ t.status = "concluida")
    IN  ApplySigned(acc.initialBalance, accountTransactions)

\* the call that stores what it computed in the account it was handed
updateAccountBalanceInPlace(acc, txns) ==
    LET balance == updateAccountBalance(acc, txns)
    IN  [result |-> balance,
         account |-> [acc EXCEPT !.balance = balance, !.initialBalance = balance],
         transactions |-> txns]

\* one call: the number returned, and the two objects it was handed as they
\* are when it returns (filter builds a new array, balance is a local)
updateAccountBalanceCall(acc, txns) ==
    [result |-> updateAccountBalance(acc, txns),
     account |-> acc,
     transactions |-> txns]

\* the projection restarted from the initial balance
getProjectedBalanceFromInitial(acc, txns, days, today) ==
    LET futureTransactions ==
            SelectSeq(getFutureTransactions(txns, days, today),
                      LAMBDA t : t.accountId = acc.id)
    IN  ApplySigned(acc.initialBalance, futureTransactions)

getProjectedBalance(acc, txns, days, today) ==
    LET futureTransactions ==
            SelectSeq(getFutureTransactions(txns, days, today),
                      LAMBDA t : t.accountId = acc.id)
    IN  ApplySigned(acc.balance, futureTransactions)

\* reduce((sum, a) => sum + a.balance, 0)
RECURSIVE SumBalance(_)
SumBalance(accts) ==
    IF Len(accts) = 0 THEN 0
    ELSE SumBalance(SubSeq(accts, 1, Len(accts) - 1)) + accts[Len(accts)].balance

\* the total balance with the inactive accounts counted
getTotalBalanceAll(accts) == SumBalance(accts)

getTotalBalance(accts) == SumBalance(SelectSeq(accts, LAMBDA a : a.isActive))

\* The same reduce over the doubles of balances written with two decimals.
RECURSIVE SumBalance64(_)
SumBalance64(accts) ==
    IF Len(accts) = 0 THEN F64Zero
    ELSE F64Add(SumBalance64(SubSeq(accts, 1, Len(accts) - 1)),
                F64OfCents(accts[Len(accts)].balance))

\* (evaluated for balances that are not negative)
getTotalBalance64(accts) ==
    LET active == SelectSeq(accts, LAMBDA a : a.isActive)
    IN  IF \A i \in 1..Len(active) : active[i].balance >= 0
        THEN SumBalance64(active)
        ELSE Unevaluated

(***************************************************************************)
(* investmentCalculations                                                  *)
(***************************************************************************)
\* reduce((sum, i) => sum + i.currentValue, 0)
RECURSIVE SumCurrentValue(_)
SumCurrentValue(invs) ==
    IF Len(invs) = 0 THEN 0
    ELSE SumCurrentValue(SubSeq(invs, 1, Len(invs) - 1)) + invs[Len(invs)].currentValue

getTotalInvestments(invs) == SumCurrentValue(SelectSeq(invs, LAMBDA i : i.isActive))

\* the percentage computed without the test for an amount of 0
getInvestmentReturnPercentageUnguarded(investment) ==
    RMul(RDiv(Num(investment.currentValue - investment.amount), Num(investment.amount)),
         Num(100))

getInvestmentReturnPercentage(investment) ==
    IF investment.amount = 0 THEN Num(0)
    ELSE RMul(RDiv(Num(investment.currentValue - investment.amount),
                   Num(investment.amount)),
              Num(100))

\* a mapping without keys
EmptyMapping == [key \in {} |-> Num(0)]

\* the forEach of getInvestmentAllocation over the investments it is given
RECURSIVE Allocate(_, _)
Allocate(invs, total) ==
    IF Len(invs) = 0 THEN EmptyMapping
    ELSE LET investment == invs[Len(invs)]
             before == Allocate(SubSeq(invs, 1, Len(invs) - 1), total)
             allocation ==
                 IF investment.type \notin DOMAIN before
                    \/ before[investment.type] = Num(0)
                 THEN [key \in DOMAIN before \cup {investment.type} |->
                          IF key = investment.type THEN Num(0) ELSE before[key]]
                 ELSE before
         IN  [allocation EXCEPT ![investment.type] =
                 RAdd(@, RMul(RDiv(Num(investment.currentValue), Num(total)), Num(100)))]

\* the allocation with the inactive investments given a share too
getInvestmentAllocationAll(invs) ==
    LET total == getTotalInvestments(invs)
    IN  IF total = 0 THEN EmptyMapping ELSE Allocate(invs, total)

getInvestmentAllocation(invs) ==
    LET total == getTotalInvestments(invs)
    IN  IF total = 0 THEN EmptyMapping
        ELSE Allocate(SelectSeq(invs, LAMBDA i : i.isActive), total)

(***************************************************************************)
(* creditCardCalculations                                                  *)
(***************************************************************************)
getLimitUsagePercentage(creditCard) ==
    IF creditCard.limit = 0 THEN Num(0)
    ELSE RMul(RDiv(Num(creditCard.usedLimit), Num(creditCard.limit)), Num(100))

(***************************************************************************)
(* generateFinancialSummary                                                *)
(***************************************************************************)
\* the summary with the card charges left out of the monthly balance
generateFinancialSummaryNoCard(txns, accts, invs, clock1, clock2) ==
    LET totalIncome == getTotalIncome(txns)
        totalExpenses == getTotalExpenses(txns)
    IN  [totalBalance |-> getTotalBalance(accts),
         totalIncome |-> totalIncome,
         totalExpenses |-> totalExpenses,
         totalInvestments |-> getTotalInvestments(invs),
         totalDebts |-> getTotalDebts(txns),
         monthlyBalance |-> totalIncome - getTotalByType(txns, "despesa"),
         upcomingTransactions |-> getFutureTransactions(txns, DefaultDays, clock1),
         overdueTransactions |-> getOverdueTransactions(txns, clock2)]

\* getFutureTransactions and getOverdueTransactions each read the clock:
\* clock1 and clock2 are the two readings, in the order of the calls
generateFinancialSummary(txns, accts, invs, clock1, clock2) ==
    LET totalBalance == getTotalBalance(accts)
        totalIncome == getTotalIncome(txns)
        totalExpenses == getTotalExpenses(txns)
        totalInvestments == getTotalInvestments(invs)
        totalDebts == getTotalDebts(txns)
        monthlyBalance == totalIncome - totalExpenses
        upcomingTransactions == getFutureTransactions(txns, DefaultDays, clock1)
        overdueTransactions == getOverdueTransactions(txns, clock2)
    IN  [totalBalance |-> totalBalance,
         totalIncome |-> totalIncome,
         totalExpenses |-> totalExpenses,
         totalInvestments |-> totalInvestments,
         totalDebts |-> totalDebts,
         monthlyBalance |-> monthlyBalance,
         upcomingTransactions |-> upcomingTransactions,
         overdueTransactions |-> overdueTransactions]

(***************************************************************************)
(* generateMonthlyReport                                                   *)
(***************************************************************************)
\* Instants are hours of universal time counted from the first instant of
\* ReportYear; zone is the offset of local time in hours. new Date(y, m, d)
\* is the first instant of a day in local time, and a month index past the
\* days of the month rolls over as the Date constructor does (day 0 of a
\* month is the last day of the month before).
ReportYear == 2025
MonthLengths == <<31, 28, 31, 30, 31, 30, 31, 31, 30, 31, 30, 31>>

RECURSIVE DaysBefore(_)
DaysBefore(monthIndex) ==
    IF monthIndex = 0 THEN 0 ELSE DaysBefore(monthIndex - 1) + MonthLengths[monthIndex]

\* new Date(ReportYear, monthIndex, day) as an instant
NewDate(monthIndex, day, zone) ==
    (DaysBefore(monthIndex) + day - 1) * HoursPerDay - zone

getTransactionsByPeriod(txns, startDate, endDate) ==
    SelectSeq(txns, LAMBDA t : t.date >= startDate /\ t.date <= endDate)

\* reduce of the forEach that fills categoryBreakdown
RECURSIVE BreakDown(_)
BreakDown(txns) ==
    IF Len(txns) = 0 THEN [key \in {} |-> 0]
    ELSE LET t == txns[Len(txns)]
             before == BreakDown(SubSeq(txns, 1, Len(txns) - 1))
             categoryBreakdown ==
                 IF t.categoryId \notin DOMAIN before \/ before[t.categoryId] = 0
                 THEN [key \in DOMAIN before \cup {t.categoryId} |->
                          IF key = t.categoryId THEN 0 ELSE before[key]]
                 ELSE before
         IN  [categoryBreakdown EXCEPT ![t.categoryId] = @ + t.amount]

\* reduce of the forEach that fills accountBalances
RECURSIVE Snapshot(_)
Snapshot(accts) ==
    IF Len(accts) = 0 THEN [key \in {} |-> 0]
    ELSE LET acc == accts[Len(accts)]
             before == Snapshot(SubSeq(accts, 1, Len(accts) - 1))
         IN  [key \in DOMAIN before \cup {acc.id} |->
                 IF key = acc.id THEN acc.balance ELSE before[key]]

\* the report with the breakdown taken over the completed transactions only
generateMonthlyReportCompleted(txns, accts, month, year, zone) ==
    LET monthlyTransactions ==
            getTransactionsByPeriod(txns, NewDate(month - 1, 1, zone),
                                    NewDate(month, 0, zone))
    IN  [month |-> month, year |-> year,
         totalIncome |-> getTotalIncome(monthlyTransactions),
         totalExpenses |-> getTotalExpenses(monthlyTransactions),
         balance |-> getTotalIncome(monthlyTransactions)
                        - getTotalExpenses(monthlyTransactions),
         categoryBreakdown |->
             BreakDown(SelectSeq(monthlyTransactions,
                                 LAMBDA t : t.status = "concluida")),
         accountBalances |-> Snapshot(accts)]

generateMonthlyReport(txns, accts, month, year, zone) ==
    LET startDate == NewDate(month - 1, 1, zone)
        endDate == NewDate(month, 0, zone)
        monthlyTransactions == getTransactionsByPeriod(txns, startDate, endDate)
        totalIncome == getTotalIncome(monthlyTransactions)
        totalExpenses == getTotalExpenses(monthlyTransactions)
        balance == totalIncome - totalExpenses
    IN  [month |-> month,
         year |-> year,
         totalIncome |-> totalIncome,
         totalExpenses |-> totalExpenses,
         balance |-> balance,
         categoryBreakdown |-> BreakDown(monthlyTransactions),
         accountBalances |-> Snapshot(accts)]

(***************************************************************************)
(* lib/storage: the keys of localStorage and backupStorage                 *)
(***************************************************************************)
\* Values: a Date is [date |-> instant] (an Invalid Date has no instant), a
\* string holding the ISO form of an instant is [iso |-> instant], any other
\* string in a date field is [text |-> s], and null is [null |-> TRUE].
DateValue(instant) == [date |-> instant]
InvalidDate == [date |-> None]
Iso(instant) == [iso |-> instant]
JsonNull == [null |-> TRUE]

STORAGE_KEYS ==
    {"financial_transactions", "financial_accounts", "financial_categories",
     "financial_investments", "financial_credit_cards", "financial_budgets",
     "financial_goals", "financial_settings"}

DEFAULT_SETTINGS ==
    [currency |-> "BRL", dateFormat |-> "dd/MM/yyyy", theme |-> "system",
     notifications |-> [overdueTransactions |-> TRUE, upcomingBills |-> TRUE,
                        budgetAlerts |-> TRUE, goalReminders |-> TRUE],
     backup |-> [autoBackup |-> FALSE, backupFrequency |-> "weekly"]]

\* (id and type of the twelve default categories)
DEFAULT_CATEGORIES ==
    <<[id |-> "1", type |-> "receita"], [id |-> "2", type |-> "receita"],
      [id |-> "3", type |-> "despesa"], [id |-> "4", type |-> "despesa"],
      [id |-> "5", type |-> "despesa"], [id |-> "6", type |-> "despesa"],
      [id |-> "7", type |-> "despesa"], [id |-> "8", type |-> "despesa"],
      [id |-> "9", type |-> "divida"], [id |-> "10", type |-> "divida"],
      [id |-> "11", type |-> "cartao_credito"], [id |-> "12", type |-> "investimento"]>>

dateFields ==
    {"date", "scheduledDate", "createdAt", "updatedAt", "purchaseDate",
     "maturityDate", "targetDate", "startDate", "endDate", "exportDate"}

\* the fields of the types that hold a Date, and those that hold an object
DateTyped == dateFields \cup {"recurringEndDate"}
ObjectTyped == {"notifications", "backup"}

\* JSON.stringify of a Date: toISOString, and null for an Invalid Date
ToJson(v) ==
    IF "date" \in DOMAIN v
    THEN IF v.date = None THEN JsonNull ELSE Iso(v.date)
    ELSE v

\* JSON.parse(JSON.stringify(obj)) for an object of the types
RECURSIVE Stringify(_)
Stringify(obj) ==
    [key \in DOMAIN obj |->
        IF key \in DateTyped THEN ToJson(obj[key])
        ELSE IF key \in ObjectTyped THEN Stringify(obj[key])
        ELSE obj[key]]

StringifyAll(items) == [i \in 1..Len(items) |-> Stringify(items[i])]

IsString(v) == "iso" \in DOMAIN v \/ "text" \in DOMAIN v

\* new Date(string)
ParseDate(v) == IF "iso" \in DOMAIN v THEN DateValue(v.iso) ELSE InvalidDate

RECURSIVE convertDates(_)
convertDates(obj) ==
    [key \in DOMAIN obj |->
        IF key \in dateFields /\ IsString(obj[key]) THEN ParseDate(obj[key])
        ELSE IF key \in ObjectTyped THEN convertDates(obj[key])
        ELSE obj[key]]

\* an entry of localStorage: getItem returns null for a key never written
Missing == [present |-> FALSE]
Item(json) == [present |-> TRUE, json |-> json]

\* safeGetItem for the keys that hold an array
safeGetArray(store, key) ==
    IF ~store[key].present THEN <<>>
    ELSE [i \in 1..Len(store[key].json) |-> convertDates(store[key].json[i])]

\* X.save(items): the store after safeSetItem, which fails without writing
SaveArray(store, key, items, ok) ==
    IF ok THEN [store EXCEPT ![key] = Item(StringifyAll(items))] ELSE store

\* categoryStorage.getAll: what it returns
categoryGetAll(store) ==
    LET categories == safeGetArray(store, "financial_categories")
    IN  IF Len(categories) = 0 THEN DEFAULT_CATEGORIES ELSE categories

\* categoryStorage.getAll: the store it leaves
categoryGetAllStore(store, ok) ==
    LET categories == safeGetArray(store, "financial_categories")
    IN  IF Len(categories) = 0
        THEN SaveArray(store, "financial_categories", DEFAULT_CATEGORIES, ok)
        ELSE store

\* settingsStorage.get: { ...DEFAULT_SETTINGS, ...settings }
settingsGet(store) ==
    LET settings == IF ~store["financial_settings"].present THEN DEFAULT_SETTINGS
                    ELSE convertDates(store["financial_settings"].json)
    IN  [key \in DOMAIN DEFAULT_SETTINGS \cup DOMAIN settings |->
            IF key \in DOMAIN settings THEN settings[key] ELSE DEFAULT_SETTINGS[key]]

settingsSave(store, settings, ok) ==
    IF ok THEN [store EXCEPT !["financial_settings"] = Item(Stringify(settings))]
    ELSE store

\* the export that leaves the credit cards out
backupExportNoCards(store) ==
    [transactions |-> safeGetArray(store, "financial_transactions"),
     accounts |-> safeGetArray(store, "financial_accounts"),
     categories |-> categoryGetAll(store),
     investments |-> safeGetArray(store, "financial_investments"),
     budgets |-> safeGetArray(store, "financial_budgets"),
     goals |-> safeGetArray(store, "financial_goals"),
     settings |-> settingsGet(store),
     version |-> "1.0.0"]

\* backupStorage.export: the data it returns (exportDate left out)
backupExport(store) ==
    [transactions |-> safeGetArray(store, "financial_transactions"),
     accounts |-> safeGetArray(store, "financial_accounts"),
     categories |-> categoryGetAll(store),
     investments |-> safeGetArray(store, "financial_investments"),
     creditCards |-> safeGetArray(store, "financial_credit_cards"),
     budgets |-> safeGetArray(store, "financial_budgets"),
     goals |-> safeGetArray(store, "financial_goals"),
     settings |-> settingsGet(store),
     version |-> "1.0.0"]

\* data.field || fallback
OrElse(data, field, fallback) == IF field \in DOMAIN data THEN data[field] ELSE fallback

\* backupStorage.import: the store after the eight saves; a save whose key
\* is in failed writes nothing and throws nothing
backupImport(store, data, failed) ==
    LET Ok(key) == key \notin failed
        s1 == SaveArray(store, "financial_transactions",
                        OrElse(data, "transactions", <<>>), Ok("financial_transactions"))
        s2 == SaveArray(s1, "financial_accounts",
                        OrElse(data, "accounts", <<>>), Ok("financial_accounts"))
        s3 == SaveArray(s2, "financial_categories",
                        OrElse(data, "categories", DEFAULT_CATEGORIES),
                        Ok("financial_categories"))
        s4 == SaveArray(s3, "financial_investments",
                        OrElse(data, "investments", <<>>), Ok("financial_investments"))
        s5 == SaveArray(s4, "financial_credit_cards",
                        OrElse(data, "creditCards", <<>>), Ok("financial_credit_cards"))
        s6 == SaveArray(s5, "financial_budgets",
                        OrElse(data, "budgets", <<>>), Ok("financial_budgets"))
        s7 == SaveArray(s6, "financial_goals",
                        OrElse(data, "goals", <<>>), Ok("financial_goals"))
    IN  settingsSave(s7, OrElse(data, "settings", DEFAULT_SETTINGS),
                     Ok("financial_settings"))

NoBackup == [op |-> "none"]

BackupIdle ==
    /\ localStorage = [key \in STORAGE_KEYS |-> Missing]
    /\ backup = NoBackup

(***************************************************************************)
(* The interest calculator applied to a loan.                              *)
(***************************************************************************)
Loans ==
    {l \in [principal : Principals, rate : Rates,
            totalPeriods : 1..MaxPeriods, paidPeriods : 0..MaxPeriods] :
        l.paidPeriods <= l.totalPeriods}

\* the loan as an installment debt of the ledger, paying its next installment
LoanAsDebt(l) ==
    [id |-> 1, type |-> "divida", status |-> "pendente", amount |-> l.principal,
     accountId |-> "a1", categoryId |-> "c1", date |-> 0, scheduledDate |-> None,
     interestRate |-> l.rate, installments |-> l.totalPeriods,
     currentInstallment |-> l.paidPeriods + 1]

TransactionTypes ==
    {"receita", "despesa", "divida", "credito", "investimento", "cartao_credito",
     "transferencia"}

TransactionStatuses == {"pendente", "concluida", "cancelada"}

\* the horizons, in days, the upcoming list is asked for
Horizons == {7, DefaultDays}

\* everything the reducers return for a ledger, an account and a clock reading
Reduce(txns, acc, today) ==
    [byType |-> [type \in TransactionTypes |-> getTotalByType(txns, type)],
     income |-> getTotalIncome(txns),
     expenses |-> getTotalExpenses(txns),
     debts |-> getTotalDebts(txns),
     net |-> getNetBalance(txns),
     balance |-> updateAccountBalance(acc, txns),
     projected |-> getProjectedBalance(acc, txns, DefaultDays, today),
     upcoming |-> [h \in Horizons |-> getFutureTransactions(txns, h, today)],
     overdue |-> getOverdueTransactions(txns, today)]

NoLoan == [principal |-> 0, rate |-> 0, totalPeriods |-> 0, paidPeriods |-> 0]
NoCalc == [op |-> "none", value |-> Num(0), double |-> Unevaluated]
NoAccount == [id |-> "a1", initialBalance |-> 0, balance |-> 0, isActive |-> TRUE]

NoError == ""

HookIdle ==
    /\ transactions = <<>>
    /\ accounts = <<>>
    /\ view = [transactions |-> <<>>, accounts |-> <<>>]
    /\ isLoading = TRUE
    /\ error = NoError
    /\ stTransactions = <<>>
    /\ stAccounts = <<>>

\* getInvestmentReturnPercentage of each investment, in order
ReturnPercentages(invs) ==
    [i \in 1..Len(invs) |-> getInvestmentReturnPercentage(invs[i])]

\* everything the portfolio calculators return for a portfolio
Figures(p) ==
    [totalBalance |-> getTotalBalance(p.accounts),
     totalBalance64 |-> getTotalBalance64(p.accounts),
     totalInvestments |-> getTotalInvestments(p.investments),
     returnPercentage |-> ReturnPercentages(p.investments),
     allocation |-> getInvestmentAllocation(p.investments),
     limitUsage |-> getLimitUsagePercentage(p.creditCard)]

NoCard == [limit |-> 0, usedLimit |-> 0]
NoPortfolio == [accounts |-> <<>>, investments |-> <<>>, creditCard |-> NoCard]

PortfolioIdle ==
    /\ portfolio = NoPortfolio
    /\ figures = Figures(NoPortfolio)

LedgerIdle ==
    /\ ledger = <<>>
    /\ account = NoAccount
    /\ now = 0
    /\ totals = Reduce(<<>>, NoAccount, 0)

InitInterest ==
    /\ BackupIdle
    /\ loan \in Loans
    /\ calc = NoCalc
    /\ LedgerIdle
    /\ HookIdle
    /\ PortfolioIdle

CalcInstallmentPayment ==
    /\ calc' = [op |-> "installmentPayment",
                value |-> installmentPayment(Num(loan.principal), Num(loan.rate),
                                             loan.totalPeriods),
                double |-> Unevaluated]
    /\ UNCHANGED <<backupVars, loan, ledgerVars, hookVars, portfolioVars>>

CalcRemainingBalance ==
    /\ calc' = [op |-> "remainingBalance",
                value |-> remainingBalance(Num(loan.principal), Num(loan.rate),
                                           loan.totalPeriods, loan.paidPeriods),
                double |-> remainingBalance64(loan.principal, loan.rate,
                                              loan.totalPeriods, loan.paidPeriods)]
    /\ UNCHANGED <<backupVars, loan, ledgerVars, hookVars, portfolioVars>>

CalcTotalDebts ==
    /\ loan.paidPeriods < loan.totalPeriods
    /\ calc' = [op |-> "getTotalDebts", value |-> getTotalDebts(<<LoanAsDebt(loan)>>),
                double |-> Unevaluated]
    /\ UNCHANGED <<backupVars, loan, ledgerVars, hookVars, portfolioVars>>

\* the next installment of the debt becomes the current one
PayInstallment ==
    /\ loan.paidPeriods + 1 < loan.totalPeriods
    /\ loan' = [loan EXCEPT !.paidPeriods = @ + 1]
    /\ calc' = [op |-> "getTotalDebts", value |-> getTotalDebts(<<LoanAsDebt(loan')>>),
                double |-> Unevaluated]
    /\ UNCHANGED <<backupVars, ledgerVars, hookVars, portfolioVars>>

NextInterest ==
    \/ CalcInstallmentPayment
    \/ CalcRemainingBalance
    \/ CalcTotalDebts
    \/ PayInstallment

SpecInterest == InitInterest /\ [][NextInterest]_vars

(***************************************************************************)
(* The reducers applied to a ledger that grows and shrinks by one          *)
(* transaction at a time.                                                  *)
(***************************************************************************)
Amounts == {200, 500}
AccountIds == {"a1", "a2"}

\* the instant of the clock reading, and dates around it
Today == 1000
PastDate == Today - 5 * HoursPerDay
SoonDate == Today + 5 * HoursPerDay

Txn(type, status, amount, accountId, date, scheduledDate, plan) ==
    [id |-> 0, type |-> type, status |-> status, amount |-> amount,
     accountId |-> accountId, categoryId |-> "c1", date |-> date,
     scheduledDate |-> scheduledDate, interestRate |-> plan.interestRate,
     installments |-> plan.installments,
     currentInstallment |-> plan.currentInstallment]

NoPlan == [interestRate |-> None, installments |-> None, currentInstallment |-> None]

\* transactions of every type and status on two accounts
PlainTxns ==
    {Txn(type, status, amount, accountId, PastDate, None, NoPlan) :
        type \in TransactionTypes, status \in TransactionStatuses,
        amount \in Amounts, accountId \in AccountIds}

LedgerAccounts ==
    {[id |-> "a1", initialBalance |-> 1000, balance |-> 1000, isActive |-> TRUE],
     [id |-> "a1", initialBalance |-> 0, balance |-> 700, isActive |-> TRUE]}

InitLedger ==
    /\ BackupIdle
    /\ loan = NoLoan
    /\ calc = NoCalc
    /\ ledger = <<>>
    /\ account \in LedgerAccounts
    /\ now = Today
    /\ totals = Reduce(ledger, account, now)
    /\ HookIdle
    /\ PortfolioIdle

\* a transaction is appended and the reducers are applied to the new ledger
PostTransaction(t) ==
    /\ Len(ledger) < MaxLedger
    /\ ledger' = Append(ledger, t)
    /\ totals' = Reduce(ledger', account, now)
    /\ UNCHANGED <<backupVars, interestVars, account, now, hookVars, portfolioVars>>

RemoveAt(seq, i) == SubSeq(seq, 1, i - 1) \o SubSeq(seq, i + 1, Len(seq))

\* a transaction is taken out and the reducers are applied to the new ledger
RemoveTransaction(i) ==
    /\ i \in 1..Len(ledger)
    /\ ledger' = RemoveAt(ledger, i)
    /\ totals' = Reduce(ledger', account, now)
    /\ UNCHANGED <<backupVars, interestVars, account, now, hookVars, portfolioVars>>

NextLedger ==
    \/ \E t \in PlainTxns : PostTransaction(t)
    \/ \E i \in 1..MaxLedger : RemoveTransaction(i)

SpecLedger == InitLedger /\ [][NextLedger]_vars

\* transactions of every type and status on one account, overdue or due
\* within the horizon, with a second amount on the transfers and the canceled
\* ones that are due, and installment debts
DatedTxns ==
    {t \in {Txn(type, status, amount, "a1", PastDate, scheduledDate, NoPlan) :
                type \in TransactionTypes, status \in TransactionStatuses,
                amount \in Amounts, scheduledDate \in {None, SoonDate}} :
        \/ t.amount = 200
        \/ /\ t.scheduledDate = SoonDate
           /\ t.type = "transferencia" \/ t.status = "cancelada"}
    \cup
    {Txn("divida", status, 200, "a1", PastDate, SoonDate,
         [interestRate |-> 100, installments |-> 3, currentInstallment |-> 2]) :
        status \in TransactionStatuses}

NextSchedule ==
    \/ \E t \in DatedTxns : PostTransaction(t)
    \/ \E i \in 1..MaxLedger : RemoveTransaction(i)

SpecSchedule == InitLedger /\ [][NextSchedule]_vars

\* The calendar: the first instant of the day of the clock reading, which is
\* what the date input of the form yields for that day, and dates around the
\* clock reading and around the end of the shorter horizon.
DayOf(instant) == instant \div HoursPerDay
StartOfDay(instant) == DayOf(instant) * HoursPerDay

CalendarDates ==
    {StartOfDay(Today) - 5 * HoursPerDay, StartOfDay(Today), Today,
     StartOfDay(Today) + 5 * HoursPerDay, Today + 7 * HoursPerDay,
     Today + 7 * HoursPerDay + 1}

\* transactions of every status falling due on a calendar date, by their
\* date or by a scheduledDate that overrides a date on the other side of the
\* clock reading
CalendarTxns ==
    {Txn("despesa", status, 200, "a1", due, None, NoPlan) :
        status \in TransactionStatuses, due \in CalendarDates}
    \cup
    {Txn("despesa", status, 200, "a1",
         IF due < Today THEN SoonDate ELSE PastDate, due, NoPlan) :
        status \in TransactionStatuses, due \in CalendarDates}

\* the clock is read in the afternoon or at the first instant of the day
ClockReadings == {Today, StartOfDay(Today)}

InitCalendar ==
    /\ BackupIdle
    /\ loan = NoLoan
    /\ calc = NoCalc
    /\ ledger = <<>>
    /\ account \in LedgerAccounts
    /\ now \in ClockReadings
    /\ totals = Reduce(ledger, account, now)
    /\ HookIdle
    /\ PortfolioIdle

NextCalendar ==
    \/ \E t \in CalendarTxns : PostTransaction(t)
    \/ \E i \in 1..MaxLedger : RemoveTransaction(i)

SpecCalendar == InitCalendar /\ [][NextCalendar]_vars

\* upcoming transactions of every type on two accounts, and transactions of
\* one account that are completed, canceled, overdue or due after the horizon
ProjectionTxns ==
    {Txn(type, "pendente", 200, accountId, PastDate, SoonDate, NoPlan) :
        type \in TransactionTypes, accountId \in AccountIds}
    \cup
    {Txn("despesa", status, 500, "a1", PastDate, SoonDate, NoPlan) :
        status \in {"concluida", "cancelada"}}
    \cup
    {Txn("receita", "pendente", 500, "a1", PastDate, None, NoPlan),
     Txn("receita", "pendente", 500, "a1", PastDate,
         Today + (DefaultDays + 1) * HoursPerDay, NoPlan)}

NextProjection ==
    \/ \E t \in ProjectionTxns : PostTransaction(t)
    \/ \E i \in 1..MaxLedger : RemoveTransaction(i)

SpecProjection == InitLedger /\ [][NextProjection]_vars

\* the installment fields a debt may carry, complete or in part
InstallmentPlans ==
    {[interestRate |-> r, installments |-> n, currentInstallment |-> k] :
        r \in {0, 1200}, n \in 1..MaxPeriods, k \in 1..MaxPeriods}
    \cup {NoPlan,
          [interestRate |-> 1200, installments |-> None, currentInstallment |-> None],
          [interestRate |-> None, installments |-> 3, currentInstallment |-> 2]}

DebtTxns ==
    {Txn("divida", status, 200, "a1", PastDate, None, plan) :
        status \in TransactionStatuses,
        plan \in {pl \in InstallmentPlans :
                     pl.installments = None \/ pl.currentInstallment = None
                     \/ pl.currentInstallment <= pl.installments}}
    \cup {Txn("despesa", "concluida", 500, "a1", PastDate, None, NoPlan),
          Txn("credito", "pendente", 500, "a1", PastDate, None, NoPlan)}

NextDebts ==
    \/ \E t \in DebtTxns : PostTransaction(t)
    \/ \E i \in 1..MaxLedger : RemoveTransaction(i)

SpecDebts == InitLedger /\ [][NextDebts]_vars

(***************************************************************************)
(* The portfolio calculators applied to collections of accounts and        *)
(* investments that grow by one entry and have entries switched on, off    *)
(* and around.                                                             *)
(***************************************************************************)
Holding(balance, isActive) ==
    [id |-> "a1", initialBalance |-> 0, balance |-> balance, isActive |-> isActive]

Investment(type, amount, currentValue, isActive) ==
    [id |-> "i1", type |-> type, amount |-> amount, currentValue |-> currentValue,
     isActive |-> isActive]

\* an account joins the collection
OpenAccount(a) ==
    /\ portfolio' = [portfolio EXCEPT !.accounts = Append(@, a)]
    /\ figures' = Figures(portfolio')
    /\ UNCHANGED <<backupVars, interestVars, ledgerVars, hookVars>>

\* the isActive flag of an account is switched
ToggleAccount(i) ==
    /\ i \in 1..Len(portfolio.accounts)
    /\ portfolio' = [portfolio EXCEPT !.accounts[i].isActive = ~@]
    /\ figures' = Figures(portfolio')
    /\ UNCHANGED <<backupVars, interestVars, ledgerVars, hookVars>>

\* two accounts trade places in the collection
SwapAccounts(i, j) ==
    /\ i \in 1..Len(portfolio.accounts)
    /\ j \in 1..Len(portfolio.accounts)
    /\ i < j
    /\ portfolio' = [portfolio EXCEPT !.accounts[i] = portfolio.accounts[j],
                                      !.accounts[j] = portfolio.accounts[i]]
    /\ figures' = Figures(portfolio')
    /\ UNCHANGED <<backupVars, interestVars, ledgerVars, hookVars>>

\* an investment joins the collection
AddInvestment(investment) ==
    /\ Len(portfolio.investments) < MaxHoldings
    /\ portfolio' = [portfolio EXCEPT !.investments = Append(@, investment)]
    /\ figures' = Figures(portfolio')
    /\ UNCHANGED <<backupVars, interestVars, ledgerVars, hookVars>>

\* the isActive flag of an investment is switched
ToggleInvestment(i) ==
    /\ i \in 1..Len(portfolio.investments)
    /\ portfolio' = [portfolio EXCEPT !.investments[i].isActive = ~@]
    /\ figures' = Figures(portfolio')
    /\ UNCHANGED <<backupVars, interestVars, ledgerVars, hookVars>>

InitPortfolio ==
    /\ BackupIdle
    /\ loan = NoLoan
    /\ calc = NoCalc
    /\ LedgerIdle
    /\ HookIdle
    /\ PortfolioIdle

\* accounts in credit and overdrawn next to investments of one type
WalletAccounts == {Holding(balance, isActive) : balance \in {-50, 250}, isActive \in BOOLEAN}

WalletInvestments ==
    {Investment("renda_fixa", 100, currentValue, isActive) :
        currentValue \in {0, 150}, isActive \in BOOLEAN}

NextPortfolio ==
    \/ /\ Len(portfolio.accounts) < MaxHoldings
       /\ \E a \in WalletAccounts : OpenAccount(a)
    \/ \E i \in 1..MaxHoldings : ToggleAccount(i)
    \/ \E investment \in WalletInvestments : AddInvestment(investment)
    \/ \E i \in 1..MaxHoldings : ToggleInvestment(i)

SpecPortfolio == InitPortfolio /\ [][NextPortfolio]_vars

(***************************************************************************)
(* lib/storage: transactionStorage and accountStorage.  A write through    *)
(* safeSetItem either stores the collection (ok) or throws inside its try  *)
(* and leaves the stored value as it was.                                  *)
(***************************************************************************)
\* findIndex(x => x.id === id), 0 when there is none
IndexOfId(seq, id) ==
    IF \E i \in 1..Len(seq) : seq[i].id = id
    THEN CHOOSE i \in 1..Len(seq) :
            seq[i].id = id /\ \A j \in 1..(i - 1) : seq[j].id # id
    ELSE 0

safeSetItem(stored, value, ok) == IF ok THEN value ELSE stored

StorageAdd(stored, x, ok) == safeSetItem(stored, Append(stored, x), ok)

\* the update that reports success for an id storage does not hold
StorageUpdateSucceedsAnyId(stored, x, ok) == ok

StorageUpdateSucceeds(stored, x, ok) == IndexOfId(stored, x.id) # 0 /\ ok

StorageUpdate(stored, x, ok) ==
    IF IndexOfId(stored, x.id) = 0 THEN stored
    ELSE safeSetItem(stored, [stored EXCEPT ![IndexOfId(stored, x.id)] = x], ok)

StorageDelete(stored, id, ok) ==
    safeSetItem(stored, SelectSeq(stored, LAMBDA x : x.id # id), ok)

(***************************************************************************)
(* hooks/useFinancialData                                                  *)
(***************************************************************************)
\* prev.map(x => x.id === y.id ? y : x)
RECURSIVE ReplaceById(_, _)
ReplaceById(seq, y) ==
    IF Len(seq) = 0 THEN <<>>
    ELSE Append(ReplaceById(SubSeq(seq, 1, Len(seq) - 1), y),
                IF seq[Len(seq)].id = y.id THEN y ELSE seq[Len(seq)])

\* every account with its balance recomputed from the transactions
RECURSIVE Reconciled(_, _)
Reconciled(accts, txns) ==
    IF Len(accts) = 0 THEN <<>>
    ELSE Append(Reconciled(SubSeq(accts, 1, Len(accts) - 1), txns),
                [accts[Len(accts)] EXCEPT
                    !.balance = updateAccountBalance(accts[Len(accts)], txns)])

\* generateId: an id that no transaction in memory or in storage carries
FreshId ==
    CHOOSE n \in 1..(2 * MaxTxns + 2) :
        /\ \A i \in 1..Len(transactions) : transactions[i].id # n
        /\ \A i \in 1..Len(stTransactions) : stTransactions[i].id # n
        /\ \A i \in 1..Len(view.transactions) : view.transactions[i].id # n
        /\ \A m \in 1..(n - 1) :
              \/ \E i \in 1..Len(transactions) : transactions[i].id = m
              \/ \E i \in 1..Len(stTransactions) : stTransactions[i].id = m
              \/ \E i \in 1..Len(view.transactions) : view.transactions[i].id = m

\* what the transaction form submits
HookTypes == {"despesa"}
HookStatuses == {"pendente", "concluida"}
HookAmounts == {200}

FormData ==
    {Txn(type, status, amount, accountId, PastDate, None, NoPlan) :
        type \in HookTypes, status \in HookStatuses,
        amount \in HookAmounts, accountId \in AccountIds}

\* the accounts found in storage when the hook mounts
StoredAccounts ==
    {<<[id |-> "a1", initialBalance |-> 1000, balance |-> b, isActive |-> TRUE],
       [id |-> "a2", initialBalance |-> 0, balance |-> 0, isActive |-> TRUE]>> :
        b \in {1000, 777}}

StoredTransactions == {<<>>} \cup {<<[t EXCEPT !.id = 1]>> : t \in FormData}

Init ==
    /\ BackupIdle
    /\ loan = NoLoan
    /\ calc = NoCalc
    /\ LedgerIdle
    /\ transactions = <<>>
    /\ accounts = <<>>
    /\ view = [transactions |-> <<>>, accounts |-> <<>>]
    /\ isLoading = TRUE
    /\ error = NoError
    /\ stTransactions \in StoredTransactions
    /\ stAccounts \in StoredAccounts
    /\ PortfolioIdle

\* the effect run on mount
LoadData(ok) ==
    /\ isLoading
    /\ LET loadedTransactions == stTransactions
           loadedAccounts == stAccounts
           updatedAccounts == Reconciled(loadedAccounts, loadedTransactions)
       IN  /\ transactions' = loadedTransactions
           /\ accounts' = updatedAccounts
           /\ stAccounts' = IF updatedAccounts # loadedAccounts
                            THEN safeSetItem(stAccounts, updatedAccounts, ok)
                            ELSE stAccounts
    /\ error' = NoError
    /\ isLoading' = FALSE
    /\ UNCHANGED <<backupVars, interestVars, ledgerVars, portfolioVars, stTransactions>>

\* the component renders again and the callbacks close over the new state
Render == view' = [transactions |-> transactions', accounts |-> accounts']

AddTransaction(transactionData, okT, okA) ==
    /\ ~isLoading
    /\ Len(transactions) < MaxTxns
    /\ LET newTransaction == [transactionData EXCEPT !.id = FreshId]
           success == okT
           idx == IndexOfId(view.accounts, newTransaction.accountId)
       IN  /\ stTransactions' = StorageAdd(stTransactions, newTransaction, okT)
           /\ IF success
              THEN /\ transactions' = Append(transactions, newTransaction)
                   /\ IF idx # 0 /\ newTransaction.status = "concluida"
                      THEN LET acc == view.accounts[idx]
                               updatedAccount ==
                                   [acc EXCEPT !.balance =
                                       updateAccountBalance(
                                           acc, Append(view.transactions, newTransaction))]
                           IN  /\ accounts' = ReplaceById(accounts, updatedAccount)
                               /\ stAccounts' = StorageUpdate(stAccounts, updatedAccount, okA)
                      ELSE UNCHANGED <<accounts, stAccounts>>
                   /\ UNCHANGED error
              ELSE /\ error' = "Erro ao adicionar transacao"
                   /\ UNCHANGED <<transactions, accounts, stAccounts>>
    /\ UNCHANGED <<backupVars, interestVars, ledgerVars, portfolioVars, isLoading>>

UpdateTransaction(updatedTransaction, okT, okA) ==
    /\ ~isLoading
    /\ LET success == StorageUpdateSucceeds(stTransactions, updatedTransaction, okT)
           idx == IndexOfId(view.accounts, updatedTransaction.accountId)
       IN  /\ stTransactions' = StorageUpdate(stTransactions, updatedTransaction, okT)
           /\ IF success
              THEN /\ transactions' = ReplaceById(transactions, updatedTransaction)
                   /\ IF idx # 0
                      THEN LET acc == view.accounts[idx]
                               updatedAccount ==
                                   [acc EXCEPT !.balance =
                                       updateAccountBalance(
                                           acc,
                                           ReplaceById(view.transactions, updatedTransaction))]
                           IN  /\ accounts' = ReplaceById(accounts, updatedAccount)
                               /\ stAccounts' = StorageUpdate(stAccounts, updatedAccount, okA)
                      ELSE UNCHANGED <<accounts, stAccounts>>
                   /\ UNCHANGED error
              ELSE /\ error' = "Erro ao atualizar transacao"
                   /\ UNCHANGED <<transactions, accounts, stAccounts>>
    /\ UNCHANGED <<backupVars, interestVars, ledgerVars, portfolioVars, isLoading>>

DeleteTransaction(id, okT, okA) ==
    /\ ~isLoading
    /\ LET found == IndexOfId(view.transactions, id)
           success == found # 0 /\ okT
       IN  IF found = 0
           THEN /\ error' = "Erro ao deletar transacao"
                /\ UNCHANGED <<transactions, accounts, stTransactions, stAccounts>>
           ELSE /\ stTransactions' = StorageDelete(stTransactions, id, okT)
                /\ IF success
                   THEN LET transaction == view.transactions[found]
                            idx == IndexOfId(view.accounts, transaction.accountId)
                        IN  /\ transactions' = SelectSeq(transactions, LAMBDA t : t.id # id)
                            /\ IF idx # 0
                               THEN LET acc == view.accounts[idx]
                                        updatedAccount ==
                                            [acc EXCEPT !.balance =
                                                updateAccountBalance(
                                                    acc,
                                                    SelectSeq(view.transactions,
                                                              LAMBDA t : t.id # id))]
                                    IN  /\ accounts' = ReplaceById(accounts, updatedAccount)
                                        /\ stAccounts' =
                                               StorageUpdate(stAccounts, updatedAccount, okA)
                               ELSE UNCHANGED <<accounts, stAccounts>>
                            /\ UNCHANGED error
                   ELSE /\ error' = "Erro ao deletar transacao"
                        /\ UNCHANGED <<transactions, accounts, stAccounts>>
    /\ UNCHANGED <<backupVars, interestVars, ledgerVars, portfolioVars, isLoading>>

\* the account is deleted unless a transaction of the closure refers to it
DeleteAccount(id, ok) ==
    /\ ~isLoading
    /\ LET hasTransactions ==
               \E i \in 1..Len(view.transactions) : view.transactions[i].accountId = id
           success == ok
       IN  IF hasTransactions
           THEN /\ error' = "Erro ao deletar conta"
                /\ UNCHANGED <<accounts, stAccounts>>
           ELSE /\ stAccounts' = StorageDelete(stAccounts, id, ok)
                /\ IF success
                   THEN /\ accounts' = SelectSeq(accounts, LAMBDA a : a.id # id)
                        /\ UNCHANGED error
                   ELSE /\ error' = "Erro ao deletar conta"
                        /\ UNCHANGED accounts
    /\ UNCHANGED <<backupVars, interestVars, ledgerVars, portfolioVars, isLoading,
                   transactions, stTransactions>>

\* the edited version of a listed transaction, as the form submits it
Edited(t, data) ==
    [t EXCEPT !.type = data.type, !.status = data.status, !.amount = data.amount,
              !.accountId = data.accountId]

\* One operation at a time: each is issued from the render that follows the
\* previous one.  localStorage either takes the writes of an operation or
\* throws on them (quota exceeded, storage disabled).
Next ==
    \/ \E ok \in BOOLEAN : LoadData(ok) /\ Render
    \/ \E data \in FormData, ok \in BOOLEAN :
          AddTransaction(data, ok, ok) /\ Render
    \/ \E i \in 1..Len(view.transactions), data \in FormData, ok \in BOOLEAN :
          UpdateTransaction(Edited(view.transactions[i], data), ok, ok) /\ Render
    \/ \E i \in 1..Len(view.transactions), ok \in BOOLEAN :
          DeleteTransaction(view.transactions[i].id, ok, ok) /\ Render

Spec == Init /\ [][Next]_vars

\* the state has changed and the component renders again
Rerender ==
    /\ view # [transactions |-> transactions, accounts |-> accounts]
    /\ UNCHANGED <<backupVars, interestVars, ledgerVars, portfolioVars, transactions, accounts,
                   isLoading, error, stTransactions, stAccounts>>
    /\ Render

\* Several operations may be issued from one render, as handleBulkDelete
\* does: each of them runs with the transactions and accounts of that render.
\* Every write succeeds.
NextBatch ==
    \/ LoadData(TRUE) /\ Render
    \/ \E data \in FormData : AddTransaction(data, TRUE, TRUE) /\ UNCHANGED view
    \/ \E i \in 1..Len(view.transactions) :
          DeleteTransaction(view.transactions[i].id, TRUE, TRUE) /\ UNCHANGED view
    \/ \E id \in AccountIds : DeleteAccount(id, TRUE) /\ UNCHANGED view
    \/ Rerender

SpecBatch == Init /\ [][NextBatch]_vars

\* a completed expense on the first account
WriteData == {data \in FormData : data.accountId = "a1" /\ data.status = "concluida"}

\* Operations issued from one render or from successive ones; localStorage
\* either takes the writes of an operation or throws on them.
NextWrites ==
    \/ LoadData(TRUE) /\ Render
    \/ \E data \in WriteData, ok \in BOOLEAN :
          AddTransaction(data, ok, ok) /\ UNCHANGED view
    \/ \E i \in 1..Len(view.transactions), data \in WriteData, ok \in BOOLEAN :
          UpdateTransaction(Edited(view.transactions[i], data), ok, ok) /\ UNCHANGED view
    \/ \E i \in 1..Len(view.transactions), ok \in BOOLEAN :
          DeleteTransaction(view.transactions[i].id, ok, ok) /\ UNCHANGED view
    \/ Rerender

SpecWrites == Init /\ [][NextWrites]_vars

(***************************************************************************)
(* Claims about the interest calculator (checked under SpecInterest).      *)
(***************************************************************************)
\* C6: the contribution of an installment debt to getTotalDebts never grows
\* when the debt moves on to its next installment, never exceeds the original
\* amount and is never negative.
DebtContributionShrinks ==
    /\ [](calc.op = "getTotalDebts" =>
            /\ RLeq(Num(0), calc.value)
            /\ RLeq(calc.value, Num(loan.principal)))
    /\ [][(/\ calc.op = "getTotalDebts"
           /\ calc'.op = "getTotalDebts"
           /\ loan'.paidPeriods = loan.paidPeriods + 1)
          => RLeq(calc'.value, calc.value)]_vars

\* an interest-bearing debt on its last installment owes less than its amount
DebtContributionShrinksWitness ==
    /\ calc.op = "getTotalDebts"
    /\ loan.rate > 0
    /\ loan.totalPeriods = MaxPeriods
    /\ loan.paidPeriods = loan.totalPeriods - 1
    /\ RLess(calc.value, Num(loan.principal))

\* C7: remainingBalance(p, r, n, n) is 0 and remainingBalance(p, r, n, 0) is p,
\* as the doubles the code returns.
RemainingBalanceEndsExactly ==
    (calc.op = "remainingBalance" /\ calc.double # Unevaluated) =>
        /\ (loan.paidPeriods = loan.totalPeriods => calc.double = F64Zero)
        /\ (loan.paidPeriods = 0 => calc.double = F64OfCents(loan.principal))

\* The same two equalities hold of the exact values, before rounding.
RemainingBalanceEnds ==
    calc.op = "remainingBalance" =>
        /\ (loan.paidPeriods = loan.totalPeriods => calc.value = Num(0))
        /\ (loan.paidPeriods = 0 => calc.value = Num(loan.principal))

RemainingBalanceEndsWitness ==
    /\ calc.op = "remainingBalance"
    /\ loan.rate > 0
    /\ loan.totalPeriods > 1
    /\ loan.paidPeriods = loan.totalPeriods
    /\ calc.value = Num(0)

\* C8: at rate 0 installmentPayment is principal / periods.
ZeroRateStraightLine ==
    (calc.op = "installmentPayment" /\ loan.rate = 0)
        => calc.value = Rat(loan.principal, loan.totalPeriods)

ZeroRateStraightLineWitness ==
    /\ calc.op = "installmentPayment"
    /\ loan.rate = 0
    /\ loan.totalPeriods = 3
    /\ calc.value = Rat(loan.principal, 3)

RECURSIVE SumAt(_)
SumAt(S) ==
    IF S = {} THEN 0
    ELSE LET i == CHOOSE j \in S : TRUE IN ledger[i].amount + SumAt(S \ {i})

Completed(i) == ledger[i].accountId = account.id /\ ledger[i].status = "concluida"

\* C2: updateAccountBalance is initialBalance plus the completed income and
\* credit of the account minus its completed expense, debt, card charge and
\* investment; other accounts and other statuses do not count
\* (checked under SpecLedger).
BalanceIsSignedSum ==
    totals.balance =
        account.initialBalance
        + SumAt({i \in 1..Len(ledger) :
                    Completed(i) /\ ledger[i].type \in {"receita", "credito"}})
        - SumAt({i \in 1..Len(ledger) :
                    Completed(i) /\ ledger[i].type \in
                        {"despesa", "divida", "cartao_credito", "investimento"}})

\* initial 1000, completed income 500, completed expense 200 gives 1300
BalanceIsSignedSumWitness ==
    /\ account.initialBalance = 1000
    /\ Len(ledger) = 2
    /\ ledger[1].type = "receita" /\ ledger[1].amount = 500 /\ Completed(1)
    /\ ledger[2].type = "despesa" /\ ledger[2].amount = 200 /\ Completed(2)
    /\ totals.balance = 1300

\* the step appends t to the ledger or takes t out of it
Posted(t) == ledger' = Append(ledger, t)
Removed(t) == \E i \in 1..Len(ledger) : ledger[i] = t /\ ledger' = RemoveAt(ledger, i)

\* C3: adding or removing a transfer leaves updateAccountBalance and
\* getProjectedBalance unchanged (checked under SpecSchedule).
TransfersNotReconciled ==
    [][\A t \in DatedTxns :
          (t.type = "transferencia" /\ (Posted(t) \/ Removed(t)))
              => /\ totals'.balance = totals.balance
                 /\ totals'.projected = totals.projected]_vars

\* a completed and an upcoming pending transfer next to an upcoming expense
TransfersNotReconciledWitness ==
    /\ Len(ledger) = 2
    /\ \E i, j \in 1..2 :
          /\ ledger[i].type = "transferencia"
          /\ ledger[i].status = "pendente"
          /\ ledger[i].scheduledDate = SoonDate
          /\ ledger[j].type = "despesa"
          /\ ledger[j].status = "pendente"
          /\ ledger[j].scheduledDate = SoonDate
          /\ totals.projected = account.balance - ledger[j].amount
    /\ totals.balance = account.initialBalance

\* C4: adding a canceled transaction changes none of the totals
\* (checked under SpecSchedule).
CanceledNeverCounts ==
    [][\A t \in DatedTxns :
          (t.status = "cancelada" /\ Posted(t)) => totals' = totals]_vars

\* a canceled installment debt due soon next to a completed income
CanceledNeverCountsWitness ==
    /\ Len(ledger) = 2
    /\ ledger[1].type = "receita" /\ ledger[1].status = "concluida"
    /\ ledger[2].type = "divida" /\ ledger[2].status = "cancelada"
    /\ ledger[2].installments # None /\ ledger[2].scheduledDate = SoonDate
    /\ totals.debts = Num(0)
    /\ totals.income = ledger[1].amount
    /\ totals.balance = account.initialBalance + ledger[1].amount
    /\ totals.projected = account.balance

\* what the claim lets one debt contribute: the remaining balance when the
\* three installment fields are present, the amount otherwise
ClaimedDebtContribution(t) ==
    IF t.installments # None /\ t.currentInstallment # None /\ t.interestRate # None
    THEN remainingBalance(Num(t.amount), Num(t.interestRate), t.installments,
                          t.currentInstallment - 1)
    ELSE Num(t.amount)

RECURSIVE ClaimedDebts(_)
ClaimedDebts(S) ==
    IF S = {} THEN Num(0)
    ELSE LET i == CHOOSE j \in S : TRUE
         IN  RAdd(ClaimedDebtContribution(ledger[i]), ClaimedDebts(S \ {i}))

\* C5: getTotalDebts sums, over the debts that are not canceled, the
\* remaining balance of those with installments, currentInstallment and
\* interestRate present (an interestRate of 0 included) and the amount of
\* the others (checked under SpecDebts).
TotalDebtsAsClaimed ==
    totals.debts =
        ClaimedDebts({i \in 1..Len(ledger) :
                        ledger[i].type = "divida" /\ ledger[i].status # "cancelada"})

\* C10: getTotalIncome - getTotalExpenses is getNetBalance
\* (checked under SpecLedger).
NetIsIncomeMinusExpenses == totals.income - totals.expenses = totals.net

\* income, a plain expense and a card charge, all completed
NetIsIncomeMinusExpensesWitness ==
    /\ Len(ledger) = 2
    /\ ledger[1].type = "receita" /\ ledger[1].status = "concluida"
    /\ ledger[2].type = "cartao_credito" /\ ledger[2].status = "concluida"
    /\ totals.net = ledger[1].amount - ledger[2].amount

Pending(t) == t.status = "pendente"
In(seq, t) == \E j \in 1..Len(seq) : seq[j] = t

\* C12: the upcoming list holds exactly the pending transactions due from
\* today to the end of the horizon, the end included; a pending transaction
\* due today is in it.
UpcomingFromToday ==
    \A h \in Horizons :
        totals.upcoming[h] =
            SelectSeq(ledger,
                      LAMBDA t : /\ Pending(t)
                                 /\ EffectiveDate(t) >= StartOfDay(now)
                                 /\ EffectiveDate(t) <= now + h * HoursPerDay)

\* Counted from the instant of the call the interval is the one of C12.
UpcomingFromNow ==
    \A h \in Horizons :
        totals.upcoming[h] =
            SelectSeq(ledger,
                      LAMBDA t : /\ Pending(t)
                                 /\ EffectiveDate(t) >= now
                                 /\ EffectiveDate(t) <= now + h * HoursPerDay)

\* C13: the overdue list holds exactly the pending transactions due before
\* today; a pending transaction due today is not in it.
OverdueBeforeToday ==
    totals.overdue =
        SelectSeq(ledger,
                  LAMBDA t : Pending(t) /\ EffectiveDate(t) < StartOfDay(now))

\* Counted from the instant of the call the overdue list is the one of C13.
OverdueBeforeNow ==
    totals.overdue =
        SelectSeq(ledger, LAMBDA t : Pending(t) /\ EffectiveDate(t) < now)

Upcoming(i) ==
    ledger[i].accountId = account.id /\ In(totals.upcoming[DefaultDays], ledger[i])

ProjectionFromBalance ==
    totals.projected =
        account.balance
        + SumAt({i \in 1..Len(ledger) :
                    Upcoming(i) /\ ledger[i].type \in {"receita", "credito"}})
        - SumAt({i \in 1..Len(ledger) :
                    Upcoming(i) /\ ledger[i].type \in
                        {"despesa", "divida", "cartao_credito", "investimento"}})

\* a balance of 700 over an initial balance of 0, an upcoming expense of the
\* account and an upcoming income of another account
ProjectionFromBalanceWitness ==
    /\ account.balance = 700 /\ account.initialBalance = 0
    /\ Len(ledger) = 2
    /\ ledger[1].type = "despesa" /\ Upcoming(1)
    /\ ledger[2].type = "receita" /\ ledger[2].accountId # account.id
    /\ Pending(ledger[2])
    /\ totals.projected = 700 - ledger[1].amount

(***************************************************************************)
(* Claims about the portfolio calculators.                                 *)
(***************************************************************************)
\* the sum of f over the positions in S
RECURSIVE SumOver(_, _)
SumOver(f(_), S) ==
    IF S = {} THEN 0
    ELSE LET i == CHOOSE j \in S : TRUE IN f(i) + SumOver(f, S \ {i})

BalanceAt(i) == portfolio.accounts[i].balance
CurrentValueAt(i) == portfolio.investments[i].currentValue
ActiveAccounts == {i \in 1..Len(portfolio.accounts) : portfolio.accounts[i].isActive}
ActiveInvestments ==
    {i \in 1..Len(portfolio.investments) : portfolio.investments[i].isActive}

OrderedAccounts == {Holding(balance, isActive) : balance \in {10, 20, 30}, isActive \in BOOLEAN}

NextOrder ==
    \/ /\ Len(portfolio.accounts) < MaxAccounts
       /\ \E a \in OrderedAccounts : OpenAccount(a)
    \/ \E i \in 1..MaxAccounts : ToggleAccount(i)
    \/ \E i, j \in 1..MaxAccounts : SwapAccounts(i, j)

SpecOrder == InitPortfolio /\ [][NextOrder]_vars

\* the two collections hold the same accounts, each as many times
Permuted(s, t) ==
    /\ Len(s) = Len(t)
    /\ \A i \in 1..Len(s) :
          Cardinality({k \in 1..Len(s) : s[k] = s[i]}) =
          Cardinality({k \in 1..Len(t) : t[k] = s[i]})

\* the sum of the active balances in exact arithmetic does not depend on the
\* order of the accounts
ExactTotalOrderIndependent ==
    [][Permuted(portfolio.accounts, portfolio'.accounts)
         => figures'.totalBalance = figures.totalBalance]_vars

\* C17: totalBalance is unchanged under any permutation of the accounts
\* collection: a step that only reorders the accounts leaves the total that
\* getTotalBalance returns, a double, as it was
TotalBalanceOrderIndependent ==
    [][Permuted(portfolio.accounts, portfolio'.accounts)
         => figures'.totalBalance64 = figures.totalBalance64]_vars


(***************************************************************************)
(* Repeated calls of updateAccountBalance on one account and one ledger    *)
(***************************************************************************)
MaxCalls == 2

\* totals holds the numbers returned by the calls made on the present pair
NoCalls == <<>>

InitCalls ==
    /\ BackupIdle
    /\ loan = NoLoan
    /\ calc = NoCalc
    /\ ledger = <<>>
    /\ account \in LedgerAccounts
    /\ now = Today
    /\ totals = NoCalls
    /\ HookIdle
    /\ PortfolioIdle

CallTxns ==
    {Txn(type, status, 200, accountId, PastDate, None, NoPlan) :
        type \in {"receita", "despesa", "transferencia"},
        status \in {"concluida", "pendente"}, accountId \in AccountIds}

\* the ledger grows; no call has been made on the new pair
RecordTransaction(t) ==
    /\ Len(ledger) < MaxLedger
    /\ ledger' = Append(ledger, t)
    /\ totals' = NoCalls
    /\ UNCHANGED <<backupVars, interestVars, account, now, hookVars, portfolioVars>>

\* updateAccountBalance(account, ledger) is called and its result kept
CallUpdateAccountBalance ==
    /\ Len(totals) < MaxCalls
    /\ LET call == updateAccountBalanceCall(account, ledger)
       IN  /\ account' = call.account
           /\ ledger' = call.transactions
           /\ totals' = Append(totals, call.result)
    /\ UNCHANGED <<backupVars, interestVars, now, hookVars, portfolioVars>>

NextCalls ==
    \/ \E t \in CallTxns : RecordTransaction(t)
    \/ CallUpdateAccountBalance

SpecCalls == InitCalls /\ [][NextCalls]_vars

RatioInvestments ==
    {Investment(type, amount, currentValue, isActive) :
        type \in {"renda_fixa", "fundos"}, amount \in {0, 100},
        currentValue \in {0, 150}, isActive \in BOOLEAN}

\* cards with and without a limit
RatioCards == {[limit |-> limit, usedLimit |-> usedLimit] :
                  limit \in {0, 1000}, usedLimit \in {0, 250}}

\* the card of the portfolio is replaced
IssueCard(card) ==
    /\ portfolio' = [portfolio EXCEPT !.creditCard = card]
    /\ figures' = Figures(portfolio')
    /\ UNCHANGED <<backupVars, interestVars, ledgerVars, hookVars>>

NextInvestments ==
    \/ \E investment \in RatioInvestments : AddInvestment(investment)
    \/ \E i \in 1..MaxHoldings : ToggleInvestment(i)
    \/ \E card \in RatioCards : IssueCard(card)

SpecInvestments == InitPortfolio /\ [][NextInvestments]_vars

\* the rational r is n / d
IsRatio(r, n, d) == r # NotFinite /\ r[1] * d = n * r[2]

\* C19: returnPercentage is 0 when the amount is 0 and
\* (currentValue - amount) / amount * 100 otherwise, the limit usage is 0
\* when the limit is 0 and usedLimit / limit * 100 otherwise, and neither is
\* ever the result of a division by zero
RatiosTotal ==
    /\ Len(figures.returnPercentage) = Len(portfolio.investments)
    /\ \A i \in 1..Len(portfolio.investments) :
          LET investment == portfolio.investments[i]
              percentage == figures.returnPercentage[i]
          IN  /\ percentage # NotFinite
              /\ IF investment.amount = 0 THEN percentage = Num(0)
                 ELSE IsRatio(percentage,
                              (investment.currentValue - investment.amount) * 100,
                              investment.amount)
    /\ figures.limitUsage # NotFinite
    /\ IF portfolio.creditCard.limit = 0 THEN figures.limitUsage = Num(0)
       ELSE IsRatio(figures.limitUsage, portfolio.creditCard.usedLimit * 100,
                    portfolio.creditCard.limit)

\* an investment bought for nothing and worth something next to one with a
\* loss, and a card without a limit that has been used
RatiosTotalWitness ==
    /\ \E i \in 1..Len(portfolio.investments) :
          /\ portfolio.investments[i].amount = 0
          /\ portfolio.investments[i].currentValue > 0
          /\ figures.returnPercentage[i] = Num(0)
    /\ \E i \in 1..Len(portfolio.investments) :
          /\ portfolio.investments[i].amount > 0
          /\ figures.returnPercentage[i] = Num(-100)
    /\ portfolio.creditCard.limit = 0
    /\ portfolio.creditCard.usedLimit > 0

ActiveOfType(type) == {i \in ActiveInvestments : portfolio.investments[i].type = type}

\* C20: allocationByType is the empty mapping when the current values of the
\* active investments add up to zero, the empty collection included;
\* otherwise its keys are the types of the active investments and each maps
\* to the sum of currentValue / total * 100 over the active investments of
\* that type, so that an inactive investment adds no key and no share
AllocationOverActive ==
    LET total == SumOver(CurrentValueAt, ActiveInvestments)
    IN  IF total = 0 THEN figures.allocation = EmptyMapping
        ELSE /\ DOMAIN figures.allocation =
                    {portfolio.investments[i].type : i \in ActiveInvestments}
             /\ \A type \in DOMAIN figures.allocation :
                   IsRatio(figures.allocation[type],
                           SumOver(CurrentValueAt, ActiveOfType(type)) * 100,
                           total)

\* an inactive investment with a value, of a type no active investment
\* has, next to an active investment with a value
AllocationOverActiveWitness ==
    /\ \E i \in ActiveInvestments : CurrentValueAt(i) > 0
    /\ \E i \in 1..Len(portfolio.investments) :
          /\ ~portfolio.investments[i].isActive
          /\ CurrentValueAt(i) > 0
          /\ portfolio.investments[i].type \notin DOMAIN figures.allocation

\* no active investment has a value and the mapping has no key
AllocationEmptyWitness ==
    /\ Len(portfolio.investments) > 0
    /\ ActiveInvestments # {}
    /\ figures.allocation = EmptyMapping


(***************************************************************************)
(* generateFinancialSummary applied to a ledger and a portfolio            *)
(***************************************************************************)
\* income, expenses, card charges and debts, pending and completed, due
\* before the clock readings, at the first instant of today, and after
SummaryTxns ==
    {Txn(type, status, 200, "a1", due, None, NoPlan) :
        type \in {"receita", "despesa", "cartao_credito", "divida"},
        status \in {"pendente", "concluida"},
        due \in {StartOfDay(Today) - 5 * HoursPerDay, StartOfDay(Today), SoonDate}}

SummaryPortfolios ==
    {NoPortfolio,
     [NoPortfolio EXCEPT
         !.accounts = <<Holding(250, TRUE), Holding(-50, FALSE)>>,
         !.investments = <<Investment("fundos", 100, 150, TRUE),
                           Investment("fundos", 100, 150, FALSE)>>]}

\* the second reading of the clock is the first or a later one
LaterReadings(clock1) == {clock1, clock1 + 1}

\* totals holds the summary and the two clock readings it was made with
Summarize(txns, p, clock1, clock2) ==
    [summary |-> generateFinancialSummary(txns, p.accounts, p.investments,
                                           clock1, clock2),
     readings |-> <<clock1, clock2>>]

InitSummary ==
    /\ BackupIdle
    /\ loan = NoLoan
    /\ calc = NoCalc
    /\ ledger = <<>>
    /\ account = NoAccount
    /\ now \in ClockReadings
    /\ portfolio \in SummaryPortfolios
    /\ figures = Figures(portfolio)
    /\ totals = Summarize(ledger, portfolio, now, now)
    /\ HookIdle

\* a transaction is appended and the summary is generated for the new ledger
SummaryAfterPost(t, clock1, clock2) ==
    /\ Len(ledger) < MaxLedger
    /\ ledger' = Append(ledger, t)
    /\ now' = clock2
    /\ totals' = Summarize(ledger', portfolio, clock1, clock2)
    /\ UNCHANGED <<backupVars, interestVars, account, hookVars, portfolioVars>>

\* a transaction is taken out and the summary is generated for the new ledger
SummaryAfterRemove(i, clock1, clock2) ==
    /\ i \in 1..Len(ledger)
    /\ ledger' = RemoveAt(ledger, i)
    /\ now' = clock2
    /\ totals' = Summarize(ledger', portfolio, clock1, clock2)
    /\ UNCHANGED <<backupVars, interestVars, account, hookVars, portfolioVars>>

NextSummary ==
    \/ \E t \in SummaryTxns : \E clock1 \in ClockReadings :
          \E clock2 \in LaterReadings(clock1) : SummaryAfterPost(t, clock1, clock2)
    \/ \E i \in 1..MaxLedger : \E clock1 \in ClockReadings :
          \E clock2 \in LaterReadings(clock1) : SummaryAfterRemove(i, clock1, clock2)

SpecSummary == InitSummary /\ [][NextSummary]_vars

\* C21: each field of the summary is the component function applied to the
\* same transactions, accounts and investments (the upcoming list with the
\* 30-day default, each list with the clock reading of its own call), and the
\* monthly balance is totalIncome - totalExpenses
SummaryIsComposition ==
    LET summary == totals.summary IN
    /\ DOMAIN summary = {"totalBalance", "totalIncome", "totalExpenses",
                         "totalInvestments", "totalDebts", "monthlyBalance",
                         "upcomingTransactions", "overdueTransactions"}
    /\ summary.totalBalance = getTotalBalance(portfolio.accounts)
    /\ summary.totalIncome = getTotalIncome(ledger)
    /\ summary.totalExpenses = getTotalExpenses(ledger)
    /\ summary.totalDebts = getTotalDebts(ledger)
    /\ summary.totalInvestments = getTotalInvestments(portfolio.investments)
    /\ summary.upcomingTransactions =
           getFutureTransactions(ledger, DefaultDays, totals.readings[1])
    /\ summary.overdueTransactions = getOverdueTransactions(ledger, totals.readings[2])
    /\ summary.monthlyBalance = summary.totalIncome - summary.totalExpenses

\* a summary of a portfolio with accounts and investments and of a ledger
\* with a completed card charge and an upcoming transaction
SummaryIsCompositionWitness ==
    /\ Len(portfolio.accounts) > 0
    /\ Len(portfolio.investments) > 0
    /\ \E i \in 1..Len(ledger) :
          ledger[i].type = "cartao_credito" /\ ledger[i].status = "concluida"
    /\ totals.summary.totalExpenses > 0
    /\ totals.summary.upcomingTransactions # <<>>

\* C29: within one summary no transaction is both in the upcoming and in the
\* overdue list
SummaryListsDisjoint ==
    \A i \in 1..Len(ledger) :
        ~(/\ In(totals.summary.upcomingTransactions, ledger[i])
          /\ In(totals.summary.overdueTransactions, ledger[i]))

\* With one clock reading for both calls the two lists are disjoint.
SummaryListsDisjointAtOneInstant ==
    totals.readings[1] = totals.readings[2] => SummaryListsDisjoint


(***************************************************************************)
(* generateMonthlyReport applied to a ledger around the turn of a month    *)
(***************************************************************************)
\* the first instant in universal time of a day of ReportYear, which is what
\* the date input of the form yields for that day
FormDate(month, day) == NewDate(month - 1, day, 0)

\* 31 January, 1, 10 and 28 February, 1 March
ReportDates ==
    {FormDate(1, 31), FormDate(2, 1), FormDate(2, 10), FormDate(2, 28), FormDate(3, 1)}

ReportTxns ==
    {[Txn(kind[1], kind[2], 200, "a1", date, None, NoPlan) EXCEPT !.categoryId = c] :
        kind \in {<<"receita", "concluida">>, <<"despesa", "concluida">>,
                  <<"despesa", "cancelada">>},
        date \in ReportDates, c \in {"c1", "c2"}}

ReportAccounts ==
    {<<>>,
     <<[id |-> "a1", initialBalance |-> 0, balance |-> 250, isActive |-> TRUE],
       [id |-> "a2", initialBalance |-> 0, balance |-> -50, isActive |-> FALSE]>>}

\* local time is universal time, behind it (Sao Paulo) or ahead of it
Zones == {0, -3, 2}

ReportMonths == {1, 2}

\* totals holds the report and the zone it was made in
Report(txns, p, month, zone) ==
    [report |-> generateMonthlyReport(txns, p.accounts, month, ReportYear, zone),
     zone |-> zone]

InitReport ==
    /\ BackupIdle
    /\ loan = NoLoan
    /\ calc = NoCalc
    /\ ledger = <<>>
    /\ account = NoAccount
    /\ now = Today
    /\ \E accts \in ReportAccounts : portfolio = [NoPortfolio EXCEPT !.accounts = accts]
    /\ figures = Figures(portfolio)
    /\ \E month \in ReportMonths : \E zone \in Zones :
          totals = Report(ledger, portfolio, month, zone)
    /\ HookIdle

\* a transaction is appended and the report of a month is generated
ReportAfterPost(t, month) ==
    /\ Len(ledger) < MaxLedger
    /\ ledger' = Append(ledger, t)
    /\ totals' = Report(ledger', portfolio, month, totals.zone)
    /\ UNCHANGED <<backupVars, interestVars, account, now, hookVars, portfolioVars>>

\* a transaction is taken out and the report of a month is generated
ReportAfterRemove(i, month) ==
    /\ i \in 1..Len(ledger)
    /\ ledger' = RemoveAt(ledger, i)
    /\ totals' = Report(ledger', portfolio, month, totals.zone)
    /\ UNCHANGED <<backupVars, interestVars, account, now, hookVars, portfolioVars>>

NextReport ==
    \/ \E t \in ReportTxns : \E month \in ReportMonths : ReportAfterPost(t, month)
    \/ \E i \in 1..MaxLedger : \E month \in ReportMonths : ReportAfterRemove(i, month)

SpecReport == InitReport /\ [][NextReport]_vars

\* the transactions dated on a calendar day of the month of the report
OfTheMonth ==
    {i \in 1..Len(ledger) :
        /\ DayOf(ledger[i].date) >= DaysBefore(totals.report.month - 1)
        /\ DayOf(ledger[i].date) < DaysBefore(totals.report.month)}

\* the transactions between the two bounds generateMonthlyReport computes
InWindow ==
    {i \in 1..Len(ledger) :
        /\ ledger[i].date >= NewDate(totals.report.month - 1, 1, totals.zone)
        /\ ledger[i].date <= NewDate(totals.report.month, 0, totals.zone)}

AmountAt(i) == ledger[i].amount

\* C22: the totals of the report are totalIncome, totalExpenses and their
\* difference over exactly the transactions dated on a calendar day of the
\* month, the first and the last day included
ReportCoversTheMonth ==
    LET S == OfTheMonth IN
    /\ totals.report.totalIncome =
           SumOver(AmountAt, {i \in S : /\ ledger[i].type = "receita"
                                        /\ ledger[i].status = "concluida"})
    /\ totals.report.totalExpenses =
           SumOver(AmountAt, {i \in S : /\ ledger[i].type \in {"despesa", "cartao_credito"}
                                        /\ ledger[i].status = "concluida"})
    /\ totals.report.balance = totals.report.totalIncome - totals.report.totalExpenses

\* The totals are those of the transactions between the first instant of the
\* first day and the first instant of the last day, in local time.
ReportCoversTheWindow ==
    LET S == InWindow IN
    /\ totals.report.totalIncome =
           SumOver(AmountAt, {i \in S : /\ ledger[i].type = "receita"
                                        /\ ledger[i].status = "concluida"})
    /\ totals.report.totalExpenses =
           SumOver(AmountAt, {i \in S : /\ ledger[i].type \in {"despesa", "cartao_credito"}
                                        /\ ledger[i].status = "concluida"})
    /\ totals.report.balance = totals.report.totalIncome - totals.report.totalExpenses

\* Where local time is universal time, a date of the form on the last day
\* is the upper bound itself and the report covers the month.
ReportCoversTheMonthAtZoneZero == totals.zone = 0 => ReportCoversTheMonth

\* C23: the category breakdown maps each category of an in-window
\* transaction to the sum of the amounts of the in-window transactions of
\* that category, whatever their type and status, so that its values add up
\* to the amount of all in-window transactions; the account snapshot maps
\* every account, active or not, to its balance field
BreakdownUnconditional ==
    LET breakdown == totals.report.categoryBreakdown
        snapshot == totals.report.accountBalances
    IN  /\ DOMAIN breakdown = {ledger[i].categoryId : i \in InWindow}
        /\ \A c \in DOMAIN breakdown :
              breakdown[c] = SumOver(AmountAt, {i \in InWindow : ledger[i].categoryId = c})
        /\ SumOver(LAMBDA c : breakdown[c], DOMAIN breakdown) = SumOver(AmountAt, InWindow)
        /\ DOMAIN snapshot =
              {portfolio.accounts[i].id : i \in 1..Len(portfolio.accounts)}
        /\ \A i \in 1..Len(portfolio.accounts) :
              snapshot[portfolio.accounts[i].id] = portfolio.accounts[i].balance

\* a canceled expense and a completed income of two categories in the
\* window, and an inactive account in the snapshot
BreakdownUnconditionalWitness ==
    /\ Len(ledger) = 2
    /\ InWindow = {1, 2}
    /\ ledger[1].status = "cancelada" /\ ledger[1].categoryId = "c1"
    /\ ledger[2].status = "concluida" /\ ledger[2].categoryId = "c2"
    /\ totals.report.categoryBreakdown["c1"] = 200
    /\ \E i \in 1..Len(portfolio.accounts) :
          /\ ~portfolio.accounts[i].isActive
          /\ portfolio.accounts[i].id \in DOMAIN totals.report.accountBalances


(***************************************************************************)
(* Claims about the hook (checked under Spec).                             *)
(***************************************************************************)
\* C1: once the data is loaded, every account's balance is its reconciled
\* balance over the transactions in state.
BalancesReconciled ==
    ~isLoading =>
        \A i \in 1..Len(accounts) :
            accounts[i].balance = updateAccountBalance(accounts[i], transactions)

ViewIsCurrent == view = [transactions |-> transactions, accounts |-> accounts]

\* C24: after an update of a transaction the balance of the account it
\* referred to before and of the account it refers to after each equal
\* updateAccountBalance over the updated transactions
UpdateRecalculatesAffected ==
    [][(~isLoading /\ Len(transactions') = Len(transactions))
          => \A i \in 1..Len(transactions) :
                transactions'[i] # transactions[i]
                   => \A k \in 1..Len(accounts') :
                         accounts'[k].id \in {transactions[i].accountId,
                                              transactions'[i].accountId}
                            => accounts'[k].balance =
                                   updateAccountBalance(accounts'[k], transactions')]_vars

\* An update recalculates the account the transaction refers to afterwards.
UpdateRecalculatesNewAccount ==
    [][(~isLoading /\ Len(transactions') = Len(transactions))
          => \A i \in 1..Len(transactions) :
                transactions'[i] # transactions[i]
                   => \A k \in 1..Len(accounts') :
                         accounts'[k].id = transactions'[i].accountId
                            => accounts'[k].balance =
                                   updateAccountBalance(accounts'[k], transactions')]_vars

\* C25: once the operations issued from one render have been applied and
\* the component has rendered again, every mutation shows in the
\* transactions and each account's balance is updateAccountBalance over them
BatchLosesNothing ==
    (~isLoading /\ ViewIsCurrent) =>
        /\ transactions = stTransactions
        /\ \A k \in 1..Len(accounts) :
              accounts[k].balance = updateAccountBalance(accounts[k], transactions)

\* The list of transactions in state takes every mutation of a batch, as
\* the list in storage does.
BatchKeepsTransactions == ~isLoading => transactions = stTransactions

\* C28: an account that a transaction in state refers to stays in the
\* collection, in state and in storage, whatever operation is issued
ReferencedAccountKept ==
    [][\A k \in 1..Len(accounts) :
          (\E i \in 1..Len(transactions) : transactions[i].accountId = accounts[k].id)
             => /\ \E m \in 1..Len(accounts') : accounts'[m].id = accounts[k].id
                /\ \E m \in 1..Len(stAccounts') : stAccounts'[m].id = accounts[k].id]_vars

\* Issued from a render that shows the transactions in state, deleteAccount
\* keeps every account a transaction refers to.
ReferencedAccountKeptFromCurrentView ==
    [][ViewIsCurrent =>
          \A k \in 1..Len(accounts) :
             (\E i \in 1..Len(transactions) : transactions[i].accountId = accounts[k].id)
                => /\ \E m \in 1..Len(accounts') : accounts'[m].id = accounts[k].id
                   /\ \E m \in 1..Len(stAccounts') : stAccounts'[m].id = accounts[k].id]_vars

\* C27: after every operation the transactions and accounts in state are
\* the ones in storage
MemoryMatchesStorage ==
    ~isLoading => transactions = stTransactions /\ accounts = stAccounts

\* the operation rejected and state is what it was
Rejected ==
    /\ error' # NoError
    /\ transactions' = transactions
    /\ accounts' = accounts

\* C26: when the write behind addTransaction, updateTransaction or
\* deleteTransaction fails, or the id to update is not in storage, the
\* error is set and the transactions and accounts in state are unchanged
FailedWriteLeavesState ==
    [][/\ \A data \in WriteData : AddTransaction(data, FALSE, FALSE) => Rejected
       /\ \A i \in 1..Len(view.transactions) :
             /\ DeleteTransaction(view.transactions[i].id, FALSE, FALSE) => Rejected
             /\ \A data \in WriteData : \A ok \in BOOLEAN :
                   LET updatedTransaction == Edited(view.transactions[i], data) IN
                   (/\ UpdateTransaction(updatedTransaction, ok, ok)
                    /\ (~ok \/ IndexOfId(stTransactions, updatedTransaction.id) = 0))
                      => Rejected]_vars

\* an update was refused for a transaction that the render still lists and
\* storage no longer holds
FailedWriteLeavesStateWitness ==
    /\ error = "Erro ao atualizar transacao"
    /\ Len(view.transactions) > 0
    /\ stTransactions = <<>>
    /\ transactions = <<>>

(***************************************************************************)
(* backupStorage over what the storage modules have saved                  *)
(***************************************************************************)
\* what each collection's save is called with
Saved ==
    [financial_transactions |->
        {<<>>,
         <<[id |-> "t1", amount |-> 200, date |-> DateValue(Today),
            scheduledDate |-> DateValue(Today + HoursPerDay),
            recurringEndDate |-> DateValue(Today + HoursPerDay)]>>},
     financial_accounts |->
        {<<[id |-> "a1", balance |-> 250, createdAt |-> DateValue(Today)]>>},
     financial_categories |-> {<<>>, <<[id |-> "c1", type |-> "despesa"]>>},
     financial_investments |->
        {<<[id |-> "i1", amount |-> 100, purchaseDate |-> DateValue(Today)]>>},
     financial_credit_cards |-> {<<[id |-> "k1", limit |-> 1000, dueDate |-> 10]>>},
     financial_budgets |->
        {<<[id |-> "b1", startDate |-> DateValue(Today),
            endDate |-> DateValue(Today + HoursPerDay)]>>},
     financial_goals |->
        {<<[id |-> "g1", targetDate |-> DateValue(Today)]>>,
         <<[id |-> "g1", targetDate |-> InvalidDate]>>}]

ArrayKeys == STORAGE_KEYS \ {"financial_settings"}

\* settingsStorage.save is called with whatever the caller built
SavedSettings ==
    {[theme |-> "dark"],
     [DEFAULT_SETTINGS EXCEPT !.currency = "USD", !.notifications.budgetAlerts = FALSE]}

\* the saves of an import that fail: none, all, those of the two collections
\* with defaults, and all but those
FailingSaves ==
    {{}, STORAGE_KEYS, {"financial_categories", "financial_settings"},
     STORAGE_KEYS \ {"financial_categories", "financial_settings"}}

InitBackup ==
    /\ loan = NoLoan
    /\ calc = NoCalc
    /\ LedgerIdle
    /\ HookIdle
    /\ PortfolioIdle
    /\ BackupIdle

\* X.save(items) of one of the array collections
Persist(key, items, ok) ==
    /\ localStorage' = SaveArray(localStorage, key, items, ok)
    /\ backup' = NoBackup
    /\ UNCHANGED <<interestVars, ledgerVars, hookVars, portfolioVars>>

\* settingsStorage.save(settings)
PersistSettings(settings, ok) ==
    /\ localStorage' = settingsSave(localStorage, settings, ok)
    /\ backup' = NoBackup
    /\ UNCHANGED <<interestVars, ledgerVars, hookVars, portfolioVars>>

\* backupStorage.export()
Export(ok) ==
    /\ localStorage' = categoryGetAllStore(localStorage, ok)
    /\ backup' = [op |-> "export", data |-> backupExport(localStorage)]
    /\ UNCHANGED <<interestVars, ledgerVars, hookVars, portfolioVars>>

\* backupStorage.import(data) with the data of the export before it
Import(failed) ==
    /\ backup.op = "export"
    /\ localStorage' = backupImport(localStorage, backup.data, failed)
    /\ backup' = [op |-> "import", data |-> backup.data, result |-> TRUE]
    /\ UNCHANGED <<interestVars, ledgerVars, hookVars, portfolioVars>>

NextBackup ==
    \/ \E key \in ArrayKeys : \E items \in Saved[key] : \E ok \in BOOLEAN :
          Persist(key, items, ok)
    \/ \E settings \in SavedSettings : \E ok \in BOOLEAN : PersistSettings(settings, ok)
    \/ \E ok \in BOOLEAN : Export(ok)
    \/ \E failed \in FailingSaves : Import(failed)

SpecBackup == InitBackup /\ [][NextBackup]_vars

\* what the accessors of the eight collections return
Accessors(store) ==
    [transactions |-> safeGetArray(store, "financial_transactions"),
     accounts |-> safeGetArray(store, "financial_accounts"),
     categories |-> categoryGetAll(store),
     investments |-> safeGetArray(store, "financial_investments"),
     creditCards |-> safeGetArray(store, "financial_credit_cards"),
     budgets |-> safeGetArray(store, "financial_budgets"),
     goals |-> safeGetArray(store, "financial_goals"),
     settings |-> settingsGet(store)]

\* C30: export changes nothing the accessors return, and an import of what
\* was just exported returns true and leaves every accessor returning what it
\* returned before
BackupRoundTrip ==
    [][/\ backup'.op = "export" => Accessors(localStorage') = Accessors(localStorage)
       /\ backup'.op = "import" =>
             /\ backup'.result
             /\ Accessors(localStorage') = Accessors(localStorage)]_vars

\* a backup of saved transactions, cards and partial settings was imported
\* into a store whose categories had never been written
BackupRoundTripWitness ==
    /\ backup.op = "import"
    /\ backup.result
    /\ Len(backup.data.transactions) = 1
    /\ Len(backup.data.creditCards) = 1
    /\ backup.data.categories = DEFAULT_CATEGORIES
    /\ backup.data.settings.theme = "dark"
    /\ Accessors(localStorage) = [c \in DOMAIN Accessors(localStorage) |-> backup.data[c]]

====
